---------------------------- MODULE Spec2Model ----------------------------
(***************************************************************************)
(* Model of the product taxonomy classifier (bubble-ai): bundle detection, *)
(* candidate generation, decision parsing, confidence scoring, the         *)
(* classify / classifyOffline orchestration and the HTTP batch route.      *)
(*                                                                         *)
(* Conventions.                                                            *)
(*  - A string is a sequence of word tokens; a category code "fb-1-7" is   *)
(*    the sequence of its hyphen-separated segments <<"fb","1","7">>.      *)
(*  - Scores, similarities and confidences in [0,1] are integers in        *)
(*    hundredths (0.85 is 85) and stand for the double nearest to them;    *)
(*    a number the program computes (a bundle confidence, the combined     *)
(*    confidence) is a double, computed as IEEE 754 arithmetic does.       *)
(*  - External services (embedding service, vector store, decision         *)
(*    service) answer nondeterministically from small sets of outcomes.    *)
(***************************************************************************)
EXTENDS Integers, Sequences, FiniteSets, TLC

(***************************************************************************)
(* Bounds of the model                                                     *)
(***************************************************************************)
\* largest number of products in one batch request that the model explores
MaxBatch == 2

(***************************************************************************)
(* Program constants                                                       *)
(***************************************************************************)
DEFAULT_CONFIDENCE_THRESHOLD == 85
DEFAULT_MAX_CANDIDATES == 10
EMBEDDING_MATCH_THRESHOLD == 30
FOOD_CATEGORY_PREFIX == "fb"
BUNDLE_MAX_DEPTH == 3
MAX_TAXONOMY_DEPTH == 7
W_llmConfidence == 85
W_embeddingScore == 10
W_bundleAdjustment == 5
PRODUCT_TYPE_SCORE == 90
OFFLINE_LLM_CONFIDENCE == 50

Min(a, b) == IF a < b THEN a ELSE b
Max(a, b) == IF a > b THEN a ELSE b

(***************************************************************************)
(* Numbers (IEEE 754 binary64, round to nearest, ties to even)             *)
(* A natural number of any size is the sequence of its digits in base      *)
(* 2^15, least significant first, without leading zeros.  A double is      *)
(* [neg, m, e] with value (-1)^neg * m * 2^e and 2^52 <= m < 2^53, or zero *)
(* (m = <<>>, e = 0), or one of Infinity, -Infinity and NaN.  A number the *)
(* program reads as a decimal literal is the double nearest to it.         *)
(***************************************************************************)
Pow2(n) == 2 ^ n

\* the base of the digits
LIMB == Pow2(15)

Pow10(n) == 10 ^ n

RECURSIVE IntBitLen(_)
IntBitLen(n) == IF n = 0 THEN 0 ELSE 1 + IntBitLen(n \div 2)

RECURSIVE BTrim(_)
BTrim(a) == IF a # <<>> /\ a[Len(a)] = 0 THEN BTrim(SubSeq(a, 1, Len(a) - 1)) ELSE a

BFromInt(n) == BTrim(<<n % LIMB, n \div LIMB>>)

RECURSIVE BAddC(_, _, _)
BAddC(a, b, c) ==
  IF a = <<>> /\ b = <<>> THEN (IF c = 0 THEN <<>> ELSE <<c>>)
  ELSE IF b = <<>> /\ c = 0 THEN a
  ELSE IF a = <<>> /\ c = 0 THEN b
  ELSE LET x == (IF a = <<>> THEN 0 ELSE Head(a)) + (IF b = <<>> THEN 0 ELSE Head(b)) + c
       IN  <<x % LIMB>> \o BAddC(IF a = <<>> THEN <<>> ELSE Tail(a),
                                 IF b = <<>> THEN <<>> ELSE Tail(b), x \div LIMB)

BAdd(a, b) == BAddC(a, b, 0)

RECURSIVE BSubC(_, _, _)
BSubC(a, b, c) ==
  IF a = <<>> THEN <<>>
  ELSE LET x == Head(a) - (IF b = <<>> THEN 0 ELSE Head(b)) - c
       IN  <<(x + LIMB) % LIMB>> \o BSubC(Tail(a), IF b = <<>> THEN <<>> ELSE Tail(b),
                                          IF x < 0 THEN 1 ELSE 0)

\* a - b for a >= b
BSub(a, b) == BTrim(BSubC(a, b, 0))

BLess(a, b) ==
  IF Len(a) # Len(b) THEN Len(a) < Len(b)
  ELSE \E i \in 1..Len(a) : a[i] < b[i] /\ \A j \in (i + 1)..Len(a) : a[j] = b[j]

RECURSIVE BMulSmall(_, _, _)
BMulSmall(a, k, c) ==
  IF a = <<>> THEN (IF c = 0 THEN <<>> ELSE <<c>>)
  ELSE LET x == Head(a) * k + c
       IN  <<x % LIMB>> \o BMulSmall(Tail(a), k, x \div LIMB)

RECURSIVE BMul(_, _)
BMul(a, b) ==
  IF b = <<>> THEN <<>>
  ELSE BTrim(BAdd(BMulSmall(a, Head(b), 0), <<0>> \o BMul(a, Tail(b))))

\* quotient and remainder of a by a divisor of at most 2^15
RECURSIVE BDivSmall(_, _)
BDivSmall(a, d) ==
  IF a = <<>> THEN [q |-> <<>>, r |-> 0]
  ELSE LET hi == BDivSmall(Tail(a), d)
           x == hi.r * LIMB + Head(a)
       IN  [q |-> <<x \div d>> \o hi.q, r |-> x % d]

\* a * 2^n
BShl(a, n) ==
  IF a = <<>> THEN <<>>
  ELSE [i \in 1..(n \div 15) |-> 0] \o BMulSmall(a, Pow2(n % 15), 0)

\* floor(a / 2^n)
BShr(a, n) ==
  IF n \div 15 >= Len(a) THEN <<>>
  ELSE BTrim(BDivSmall(SubSeq(a, n \div 15 + 1, Len(a)), Pow2(n % 15)).q)

BBitLen(a) == IF a = <<>> THEN 0 ELSE 15 * (Len(a) - 1) + IntBitLen(a[Len(a)])

BIsOdd(a) == a # <<>> /\ a[1] % 2 = 1

DZero == [neg |-> FALSE, m |-> <<>>, e |-> 0]

\* the values without a significand besides zero: Infinity, -Infinity and
\* NaN, told apart by the exponent field
Infinity == [neg |-> FALSE, m |-> <<>>, e |-> 1]
NegInfinity == [neg |-> TRUE, m |-> <<>>, e |-> 1]
NaN == [neg |-> FALSE, m |-> <<>>, e |-> 2]

IsZero(x) == x.m = <<>> /\ x.e = 0
IsInfinite(x) == x.m = <<>> /\ x.e = 1
IsNaN(x) == x.m = <<>> /\ x.e = 2
IsFinite(x) == x.m # <<>> \/ x.e = 0

\* the double nearest to (-1)^neg * n * 2^e, ties to the even significand
RoundCarry(neg, q1, e) ==
  IF BBitLen(q1) = 54
    THEN [neg |-> neg, m |-> BShr(q1, 1), e |-> e + 1]
    ELSE [neg |-> neg, m |-> q1, e |-> e]

\* q is the quotient, r the remainder of the significand by 2^s, half is 2^(s-1)
RoundHalfEven(neg, q, r, half, e) ==
  RoundCarry(neg, IF BLess(half, r) \/ (r = half /\ BIsOdd(q)) THEN BAdd(q, <<1>>) ELSE q, e)

RoundQuotient(neg, n, q, s, e) ==
  RoundHalfEven(neg, q, BSub(n, BShl(q, s)), BShl(<<1>>, s - 1), e + s)

RoundBits(neg, n, len, e) ==
  IF len <= 53
    THEN [neg |-> neg, m |-> BShl(n, 53 - len), e |-> e - (53 - len)]
    ELSE RoundQuotient(neg, n, BShr(n, len - 53), len - 53, e)

Round(neg, n, e) ==
  IF n = <<>> THEN DZero ELSE RoundBits(neg, n, BBitLen(n), e)

\* dv is the quotient and remainder of n * 2^75 by 10^k
RoundDivision(neg, dv) ==
  Round(neg, BTrim(BAdd(BShl(BTrim(dv.q), 1), IF dv.r = 0 THEN <<>> ELSE <<1>>)), -76)

\* the double nearest to n * 10^-k (k <= 4)
Nearest(n, k) ==
  IF n = 0 THEN DZero
  ELSE RoundDivision(n < 0, BDivSmall(BShl(BFromInt(IF n < 0 THEN -n ELSE n), 75), Pow10(k)))

\* the doubles of the units and the hundredths from -100 to 1000, computed
\* once
Literals == [p \in {0, 2} \X (-100..1000) |-> Nearest(p[2], p[1])] @@ <<>>

\* the decimal literal n * 10^-k as a double
D(n, k) == Literals[<<k, n>>]

DNeg(x) == IF IsZero(x) \/ IsNaN(x) THEN x ELSE [x EXCEPT !.neg = ~x.neg]

\* x + y
AddSigned(xneg, mx, yneg, my, e) ==
  Round(IF xneg = yneg \/ ~BLess(mx, my) THEN xneg ELSE yneg,
        IF xneg = yneg THEN BAdd(mx, my)
        ELSE IF BLess(mx, my) THEN BSub(my, mx)
        ELSE BSub(mx, my),
        e)

AddAligned(x, y, e) == AddSigned(x.neg, BShl(x.m, x.e - e), y.neg, BShl(y.m, y.e - e), e)

DAdd(x, y) ==
  IF IsNaN(x) \/ IsNaN(y) THEN NaN
  ELSE IF IsInfinite(x) THEN (IF IsInfinite(y) /\ x.neg # y.neg THEN NaN ELSE x)
  ELSE IF IsInfinite(y) THEN y
  ELSE IF IsZero(x) THEN y
  ELSE IF IsZero(y) THEN x
  ELSE AddAligned(x, y, IF x.e < y.e THEN x.e ELSE y.e)

\* x - y
DSub(x, y) == DAdd(x, DNeg(y))

\* x * y
DMul(x, y) ==
  IF IsNaN(x) \/ IsNaN(y) THEN NaN
  ELSE IF IsInfinite(x) \/ IsInfinite(y)
    THEN (IF IsZero(x) \/ IsZero(y) THEN NaN
          ELSE IF x.neg # y.neg THEN NegInfinity ELSE Infinity)
  ELSE IF IsZero(x) \/ IsZero(y) THEN DZero
  ELSE Round(x.neg # y.neg, BMul(x.m, y.m), x.e + y.e)

\* |x| < |y| for finite x and y other than zero
MagnitudeLess(x, y) == x.e < y.e \/ (x.e = y.e /\ BLess(x.m, y.m))

\* x < y; false when either is NaN
DLess(x, y) ==
  IF IsNaN(x) \/ IsNaN(y) THEN FALSE
  ELSE IF IsInfinite(x) THEN x.neg /\ y # x
  ELSE IF IsInfinite(y) THEN ~y.neg
  ELSE IF IsZero(x) THEN ~IsZero(y) /\ ~y.neg
  ELSE IF IsZero(y) THEN x.neg
  ELSE IF x.neg # y.neg THEN x.neg
  ELSE IF x.neg THEN MagnitudeLess(y, x)
  ELSE MagnitudeLess(x, y)

\* x <= y; false when either is NaN
DLeq(x, y) == ~IsNaN(x) /\ ~IsNaN(y) /\ ~DLess(y, x)

\* Math.min, Math.max: NaN when either argument is NaN
DMin(x, y) == IF IsNaN(x) \/ IsNaN(y) THEN NaN ELSE IF DLess(y, x) THEN y ELSE x
DMax(x, y) == IF IsNaN(x) \/ IsNaN(y) THEN NaN ELSE IF DLess(x, y) THEN y ELSE x

\* the integer nearest to x * 10^k, for finite x with |x| < 2^15 / 10^k
Signed(neg, q) == IF q = <<>> THEN 0 ELSE IF neg THEN -q[1] ELSE q[1]

Decimal(x, k) ==
  IF IsZero(x) THEN 0
  ELSE Signed(x.neg, BShr(BAdd(BMulSmall(x.m, Pow10(k), 0), BShl(<<1>>, -x.e - 1)), -x.e))

DOne == D(1, 0)

\* WEIGHTS
WEIGHTS ==
  [llmConfidence |-> D(W_llmConfidence, 2),
   embeddingScore |-> D(W_embeddingScore, 2),
   bundleAdjustment |-> D(W_bundleAdjustment, 2)]

(***************************************************************************)
(* Strings as token sequences                                              *)
(***************************************************************************)
\* the tokens of the vocabulary that hold an upper-case letter, each with its
\* lower-case form; every other token of the vocabulary is lower-case already
LowerTable ==
  LET pairs ==
    { <<"Variety", "variety">>, <<"VARIETY", "variety">>, <<"Pack", "pack">>,
      <<"PACK", "pack">>, <<"Sample", "sample">>, <<"SAMPLE", "sample">>,
      <<"Gift", "gift">>, <<"GIFT", "gift">>, <<"Box", "box">>, <<"BOX", "box">>,
      <<"Set", "set">>, <<"SET", "set">>, <<"Mix", "mix">>, <<"MIX", "mix">>,
      <<"Combo", "combo">>, <<"COMBO", "combo">>, <<"Multi", "multi">>,
      <<"MULTI", "multi">>, <<"Multipack", "multipack">>, <<"MULTIPACK", "multipack">>,
      <<"Starter", "starter">>, <<"STARTER", "starter">>, <<"Kit", "kit">>,
      <<"KIT", "kit">>, <<"Discovery", "discovery">>, <<"DISCOVERY", "discovery">>,
      <<"Trial", "trial">>, <<"TRIAL", "trial">>, <<"Explorer", "explorer">>,
      <<"EXPLORER", "explorer">>, <<"Sampler", "sampler">>, <<"SAMPLER", "sampler">>,
      <<"Assortment", "assortment">>, <<"ASSORTMENT", "assortment">>,
      <<"Assorted", "assorted">>, <<"ASSORTED", "assorted">>, <<"Bundle", "bundle">>,
      <<"BUNDLE", "bundle">>, <<"Collection", "collection">>,
      <<"COLLECTION", "collection">>, <<"Mixed", "mixed">>, <<"MIXED", "mixed">>,
      <<"Small", "small">>, <<"SMALL", "small">>, <<"Medium", "medium">>,
      <<"MEDIUM", "medium">>, <<"Large", "large">>, <<"LARGE", "large">>, <<"Xs", "xs">>,
      <<"XS", "xs">>, <<"S", "s">>, <<"M", "m">>, <<"L", "l">>, <<"Xl", "xl">>,
      <<"XL", "xl">>, <<"Xxl", "xxl">>, <<"XXL", "xxl">>, <<"Oz", "oz">>, <<"OZ", "oz">>,
      <<"G", "g">>, <<"Ml", "ml">>, <<"ML", "ml">>, <<"Lb", "lb">>, <<"LB", "lb">>,
      <<"Kg", "kg">>, <<"KG", "kg">>, <<"Count", "count">>, <<"COUNT", "count">>,
      <<"Ct", "ct">>, <<"CT", "ct">>, <<"Pc", "pc">>, <<"PC", "pc">>,
      <<"Piece", "piece">>, <<"PIECE", "piece">>, <<"Pieces", "pieces">>,
      <<"PIECES", "pieces">>, <<"Pk", "pk">>, <<"PK", "pk">>, <<"Granola", "granola">>,
      <<"GRANOLA", "granola">>, <<"Chocolate", "chocolate">>,
      <<"CHOCOLATE", "chocolate">>, <<"Vanilla", "vanilla">>, <<"VANILLA", "vanilla">>,
      <<"Bakery", "bakery">>, <<"BAKERY", "bakery">>, <<"Sale", "sale">>,
      <<"SALE", "sale">>, <<"Staff", "staff">>, <<"STAFF", "staff">>,
      <<"Flavor", "flavor">>, <<"FLAVOR", "flavor">>, <<"Vintage", "vintage">>,
      <<"VINTAGE", "vintage">>, <<"Beverages", "beverages">>,
      <<"BEVERAGES", "beverages">>, <<"Food", "food">>, <<"FOOD", "food">>,
      <<"Apparel", "apparel">>, <<"APPAREL", "apparel">>, <<"Snacks", "snacks">>,
      <<"SNACKS", "snacks">>, <<"Bars", "bars">>, <<"BARS", "bars">>,
      <<"Organic", "organic">>, <<"ORGANIC", "organic">> }
  IN  [t \in {p[1] : p \in pairs} |-> (CHOOSE p \in pairs : p[1] = t)[2]]

\* String.prototype.toLowerCase on one token
LowerTok(t) == IF t \in DOMAIN LowerTable THEN LowerTable[t] ELSE t

\* String.prototype.toLowerCase
ToLowerCase(s) == [i \in 1..Len(s) |-> LowerTok(s[i])]

\* the whitespace token (leading or trailing blanks of a string)
WS == " "

RECURSIVE TrimLeft(_)
TrimLeft(s) == IF s # <<>> /\ Head(s) = WS THEN TrimLeft(Tail(s)) ELSE s

RECURSIVE TrimRight(_)
TrimRight(s) ==
  IF s # <<>> /\ s[Len(s)] = WS THEN TrimRight(SubSeq(s, 1, Len(s) - 1)) ELSE s

\* String.prototype.trim
Trim(s) == TrimRight(TrimLeft(s))

\* String.prototype.includes: kw occurs as a contiguous run of tokens of s
Includes(s, kw) ==
  \E i \in 1..(Len(s) - Len(kw) + 1) : SubSeq(s, i, i + Len(kw) - 1) = kw

(***************************************************************************)
(* Bundle detector (bundles.ts)                                            *)
(* An absent optional field and an empty one are both falsy in every test  *)
(* the code makes, so both are the empty sequence here.                    *)
(***************************************************************************)
BUNDLE_KEYWORDS ==
  << <<"variety", "pack">>, <<"sample", "pack">>, <<"gift", "box">>,
     <<"gift", "set">>, <<"gift", "pack">>, <<"mix", "pack">>,
     <<"combo", "pack">>, <<"multi", "-", "pack">>, <<"multipack">>,
     <<"starter", "kit">>, <<"discovery", "set">>, <<"trial", "pack">>,
     <<"explorer", "pack">>, <<"variety">>, <<"sampler">>, <<"assortment">>,
     <<"assorted">>, <<"bundle">>, <<"collection">>, <<"mixed">>, <<"combo">> >>

BUNDLE_TAGS ==
  << <<"bundle">>, <<"variety">>, <<"gift">>, <<"gift", "-", "box">>,
     <<"sampler">>, <<"assortment">>, <<"multi", "-", "pack">>, <<"set">>,
     <<"collection">> >>

BUNDLE_PRODUCT_TYPES ==
  << <<"gift", "box">>, <<"gift", "set">>, <<"variety", "pack">>,
     <<"bundle">>, <<"sampler">>, <<"assortment">> >>

\* \d+
IsNumber(t) == t \in {"2", "4", "6", "8", "12", "24"}

\* the tokens of s that are not whitespace
NoBlanks(s) ==
  LET NotBlank(x) == x # WS
  IN  SelectSeq(s, NotBlank)

\* a pattern that matches no title
packSizeOnlyPatternNone(t) == FALSE

\* /^(\d+)\s*-?\s*(pack|count|ct|pc|pieces?|pk)$/i on a lowercased title
packSizeOnlyPattern(t) ==
  LET units == {"pack", "count", "ct", "pc", "piece", "pieces", "pk"}
  IN  /\ Len(t) >= 2
      /\ IsNumber(t[1])
      /\ t[Len(t)] \in units
      /\ NoBlanks(SubSeq(t, 2, Len(t) - 1)) \in {<<>>, <<"-">>}

\* /^(small|medium|large|xs|s|m|l|xl|xxl|\d+\s*(oz|g|ml|lb|kg))$/i
sizeOnlyPattern(t) ==
  \/ Len(t) = 1 /\ t[1] \in {"small", "medium", "large", "xs", "s", "m", "l", "xl", "xxl"}
  \/ /\ Len(t) >= 2
     /\ IsNumber(t[1])
     /\ t[Len(t)] \in {"oz", "g", "ml", "lb", "kg"}
     /\ NoBlanks(SubSeq(t, 2, Len(t) - 1)) = <<>>

\* one signal for every variant title that is neither a pack size nor a size
detectVariantBundleSignalsPerVariant(variants) ==
  LET titles == {Trim(ToLowerCase(variants[i].title)) : i \in 1..Len(variants)}
      meaningful == {t \in titles :
                       t # <<>> /\ ~packSizeOnlyPattern(t) /\ ~sizeOnlyPattern(t)}
  IN  IF Cardinality(meaningful) >= 3
        THEN [i \in 1..Cardinality(meaningful) |-> "variants"]
        ELSE <<>>

\* the signals of the variants: distinct titles that are neither a pack
\* size nor a size; three or more of them make one signal
detectVariantBundleSignals(variants) ==
  LET titles == {Trim(ToLowerCase(variants[i].title)) : i \in 1..Len(variants)}
      meaningful == {t \in titles :
                       t # <<>> /\ ~packSizeOnlyPattern(t) /\ ~sizeOnlyPattern(t)}
  IN  IF Cardinality(meaningful) >= 3 THEN <<"variants">> ELSE <<>>

\* some keyword of the list occurs in the text (the loop breaks on the first)
AnyKeyword(list, text) == \E i \in 1..Len(list) : Includes(text, list[i])

\* a loop without the break: the weight is added for every keyword found
keywordScoreEveryMatch(list, text, weight) ==
  weight * Cardinality({i \in 1..Len(list) : Includes(text, list[i])})

\* the weight (hundredths) that the loop over the list adds to the score:
\* score += weight for the first keyword of the list found in the text
keywordScore(list, text, weight) == IF AnyKeyword(list, text) THEN weight ELSE 0

\* score += w, for the weight w in hundredths; nothing is added for w = 0
AddWeight(score, w) == IF w = 0 THEN score ELSE DAdd(score, D(w, 2))

\* a bundle only above the threshold
isBundleOfStrict(confidence) == DLess(D(40, 2), confidence)

\* isBundle = confidence >= 0.4
isBundleOf(confidence) == DLeq(D(40, 2), confidence)

detectBundle(input) ==
  LET titleHit == AnyKeyword(BUNDLE_KEYWORDS, ToLowerCase(input.title))
      descHit == input.description # <<>>
                 /\ AnyKeyword(BUNDLE_KEYWORDS, ToLowerCase(input.description))
      typeHit == input.productType # <<>>
                 /\ AnyKeyword(BUNDLE_PRODUCT_TYPES, ToLowerCase(input.productType))
      tagHit == \E i \in 1..Len(BUNDLE_TAGS) : \E j \in 1..Len(input.tags) :
                   Includes(ToLowerCase(input.tags[j]), BUNDLE_TAGS[i])
      variantSignals == IF Len(input.variants) > 0
                          THEN detectVariantBundleSignals(input.variants)
                          ELSE <<>>
      s1 == AddWeight(DZero, keywordScore(BUNDLE_KEYWORDS, ToLowerCase(input.title), 40))
      s2 == IF descHit
              THEN AddWeight(s1, keywordScore(BUNDLE_KEYWORDS,
                                              ToLowerCase(input.description), 20))
              ELSE s1
      s3 == IF typeHit
              THEN AddWeight(s2, keywordScore(BUNDLE_PRODUCT_TYPES,
                                              ToLowerCase(input.productType), 50))
              ELSE s2
      s4 == IF tagHit THEN AddWeight(s3, 40) ELSE s3
      score == IF Len(variantSignals) > 0
                 THEN DAdd(s4, DMul(D(20, 2), D(Len(variantSignals), 0)))
                 ELSE s4
      confidence == DMin(score, DOne)
      isBundle == isBundleOf(confidence)
  IN  [isBundle |-> isBundle,
       confidence |-> confidence,
       signals |-> (IF titleHit THEN <<"title">> ELSE <<>>)
                   \o (IF descHit THEN <<"description">> ELSE <<>>)
                   \o (IF typeHit THEN <<"productType">> ELSE <<>>)
                   \o (IF tagHit THEN <<"tag">> ELSE <<>>)
                   \o variantSignals,
       recommendedMaxDepth |-> IF isBundle THEN BUNDLE_MAX_DEPTH ELSE MAX_TAXONOMY_DEPTH]

(***************************************************************************)
(* Category hierarchy and attribute index (read-only lookup data)          *)
(* A nullable result is a sequence: <<>> is null, <<x>> is the value x.    *)
(***************************************************************************)
Null == <<>>
Some(x) == <<x>>

\* loadTaxonomyFull(): the categories of the hierarchy
TaxonomyFull ==
  { [code |-> <<"fb">>, full_name |-> "Food, Beverages & Tobacco", level |-> 0,
     attributes |-> {}],
    [code |-> <<"fb", "1">>, full_name |-> "Food", level |-> 1,
     attributes |-> {}],
    [code |-> <<"fb", "1", "1">>, full_name |-> "Food > Snacks", level |-> 2,
     attributes |-> {"Flavor"}],
    [code |-> <<"fb", "1", "1", "1">>, full_name |-> "Food > Snacks > Granola", level |-> 3,
     attributes |-> {"Flavor", "Dietary Use"}],
    [code |-> <<"fb", "1", "1", "1", "1">>, full_name |-> "Food > Snacks > Granola > Bars",
     level |-> 4, attributes |-> {"Flavor"}],
    [code |-> <<"fb", "2">>, full_name |-> "Beverages", level |-> 1,
     attributes |-> {"Vintage"}] }

\* loadAttributesIndex(): the handles that resolve to an attribute
AttributesIndex == {"flavor", "dietary_use"}

\* ref.name.toLowerCase().replace(/ /g, '_')
HandleOfName(name) ==
  CASE name = "Flavor" -> "flavor"
    [] name = "Dietary Use" -> "dietary_use"
    [] name = "Vintage" -> "vintage"
    [] OTHER -> name

getCategoryByCode(code) ==
  IF \E c \in TaxonomyFull : c.code = code
    THEN Some(CHOOSE c \in TaxonomyFull : c.code = code)
    ELSE Null

\* the rows of the embeddings table, in storage order; category_code is
\* UNIQUE.  The fifth row is stale (its category left the hierarchy), the
\* sixth lies outside the food vertical.
EmbeddingRows ==
  << [category_code |-> <<"fb", "1", "1">>, full_path |-> "Food > Snacks", level |-> 2],
     [category_code |-> <<"fb", "1", "1", "1">>, full_path |-> "Food > Snacks > Granola",
      level |-> 3],
     [category_code |-> <<"fb", "1", "1", "1", "1">>,
      full_path |-> "Food > Snacks > Granola > Bars", level |-> 4],
     [category_code |-> <<"fb", "2">>, full_path |-> "Beverages", level |-> 1],
     [category_code |-> <<"fb", "9", "9", "9">>, full_path |-> "Food > Retired > Old > Gone",
      level |-> 3],
     [category_code |-> <<"aa", "1">>, full_path |-> "Apparel", level |-> 1] >>

\* what a query embedding is, as far as the search can tell: the cosine
\* similarity (hundredths) of each row to it
Embeddings ==
  { <<10, 20, 5, 29, 0, 99>>,
    <<85, 45, 92, 30, 20, 95>>,
    <<60, 60, 20, 85, 70, 10>>,
    <<85, 31, 10, 10, 95, 10>> }

\* filterLevel: null
NoLevel == -1

(***************************************************************************)
(* Stable sort by descending score (Array.prototype.sort with              *)
(* (a, b) => b.score - a.score)                                            *)
(***************************************************************************)
RECURSIVE InsertByScore(_, _)
InsertByScore(x, s) ==
  IF s = <<>> THEN <<x>>
  ELSE IF Head(s).score >= x.score THEN <<Head(s)>> \o InsertByScore(x, Tail(s))
  ELSE <<x>> \o s

RECURSIVE SortByScoreDesc(_)
SortByScoreDesc(s) ==
  IF s = <<>> THEN <<>>
  ELSE InsertByScore(s[Len(s)], SortByScoreDesc(SubSeq(s, 1, Len(s) - 1)))

\* Array.prototype.slice(0, n)
Slice0(s, n) == SubSeq(s, 1, Min(Len(s), n))

RECURSIVE SelectSeqRec(_, _)
SelectSeqRec(s, keep) ==
  IF s = <<>> THEN <<>>
  ELSE (IF keep[1] THEN <<Head(s)>> ELSE <<>>) \o SelectSeqRec(Tail(s), Tail(keep))

(***************************************************************************)
(* Vector store (embeddings/search.ts)                                     *)
(***************************************************************************)
matchTaxonomyCategories(queryEmbedding, matchThreshold, matchCount, filterLevel, categoryPrefix) ==
  LET n == Len(EmbeddingRows)
      keep == [i \in 1..n |->
                 /\ (filterLevel # NoLevel => EmbeddingRows[i].level = filterLevel)
                 /\ (categoryPrefix # "" => EmbeddingRows[i].category_code[1] = categoryPrefix)
                 /\ queryEmbedding[i] >= matchThreshold]
      all == [i \in 1..n |->
                [code |-> EmbeddingRows[i].category_code,
                 path |-> EmbeddingRows[i].full_path,
                 level |-> EmbeddingRows[i].level,
                 source |-> "embedding",
                 score |-> queryEmbedding[i]]]
  IN  Slice0(SortByScoreDesc(SelectSeqRec(all, keep)), matchCount)

(***************************************************************************)
(* Candidate generator (candidates.ts)                                     *)
(***************************************************************************)
\* loadProductTypeMappings(): "For now, return empty array"
loadProductTypeMappings == <<>>

\* a curated list of ProductType mappings, of the shape the calibration
\* script reads from its data file; the third maps to a code the hierarchy
\* does not hold
CuratedMappings ==
  << [productType |-> <<"Granola">>, categoryCode |-> <<"fb", "1", "1", "1", "1">>],
     [productType |-> <<"gift", "box">>, categoryCode |-> <<"fb", "2">>],
     [productType |-> <<"chocolate">>, categoryCode |-> <<"fb", "7">>] >>

\* the lists a caller passes to classify(input, mappings, config) and
\* classifyOffline(input, mappings, config) as mappings
MappingLists == {loadProductTypeMappings, CuratedMappings}

\* Array.prototype.find: the index of the first element satisfying the
\* test, 0 when there is none
FirstIndex(n, Test(_)) ==
  IF \E i \in 1..n : Test(i) THEN CHOOSE i \in 1..n : Test(i) /\ \A j \in 1..(i - 1) : ~Test(j)
  ELSE 0

findProductTypeMapping(productType, mappings) ==
  IF productType = <<>> THEN Null
  ELSE LET normalized == Trim(ToLowerCase(productType))
           Hit(i) == ToLowerCase(mappings[i].productType) = normalized
           k == FirstIndex(Len(mappings), Hit)
       IN  IF k = 0 THEN Null ELSE Some(mappings[k])

getCandidatesFromProductType(mapping) ==
  LET category == getCategoryByCode(mapping.categoryCode)
  IN  IF category = Null THEN <<>>
      ELSE << [code |-> mapping.categoryCode,
               path |-> category[1].full_name,
               level |-> category[1].level,
               source |-> "productType",
               score |-> PRODUCT_TYPE_SCORE] >>

\* byCode.set(candidate.code, candidate): a Map keeps the position of a key
\* it already holds
RECURSIVE MapSet(_, _)
MapSet(acc, candidate) ==
  IF acc = <<>> THEN <<candidate>>
  ELSE IF Head(acc).code = candidate.code THEN <<candidate>> \o Tail(acc)
  ELSE <<Head(acc)>> \o MapSet(Tail(acc), candidate)

RECURSIVE DedupInto(_, _)
DedupInto(acc, candidates) ==
  IF candidates = <<>> THEN acc
  ELSE LET candidate == Head(candidates)
           Same(i) == acc[i].code = candidate.code
           k == FirstIndex(Len(acc), Same)
       IN  IF k = 0 \/ candidate.score > acc[k].score
             THEN DedupInto(MapSet(acc, candidate), Tail(candidates))
             ELSE DedupInto(acc, Tail(candidates))

\* a deduplication that keeps the first candidate seen for a code
RECURSIVE KeepFirstInto(_, _)
KeepFirstInto(acc, candidates) ==
  IF candidates = <<>> THEN acc
  ELSE LET candidate == Head(candidates)
           Same(i) == acc[i].code = candidate.code
       IN  IF FirstIndex(Len(acc), Same) = 0
             THEN KeepFirstInto(Append(acc, candidate), Tail(candidates))
             ELSE KeepFirstInto(acc, Tail(candidates))

deduplicateKeepFirst(candidates) == KeepFirstInto(<<>>, candidates)

deduplicateCandidates(candidates) == DedupInto(<<>>, candidates)

\* the part of getCandidates before the embedding search (the mapping lookup)
productTypeCandidates(input, mappings) ==
  LET mapping == findProductTypeMapping(input.productType, mappings)
  IN  IF mapping = Null THEN <<>> ELSE getCandidatesFromProductType(mapping[1])

\* the part of getCandidates after the embedding search, with mappings
\* (candidates.ts 450-456): concatenate, deduplicate, sort, truncate
mergeCandidates(typeCandidates, embeddingCandidates, maxCandidates) ==
  Slice0(SortByScoreDesc(deduplicateCandidates(typeCandidates \o embeddingCandidates)),
         maxCandidates)

\* the same part of the embedding-only getCandidates (candidates.ts 664-665)
embeddingOnlyCandidates(embeddingCandidates, maxCandidates) ==
  Slice0(SortByScoreDesc(embeddingCandidates), maxCandidates)

(***************************************************************************)
(* Confidence scorer (confidence.ts)                                       *)
(***************************************************************************)
\* llmConfidence, the value of embeddingScore, the confidence of the bundle
\* detection and the result are doubles; embeddingScore is Null when
\* undefined

\* the sum taken with the weights 0.6 / 0.3 / 0.1 of the earlier scorer
calculateConfidenceEarlierWeights(llmConfidence, embeddingScore, bundleDetection) ==
  LET s1 == DAdd(DZero, DMul(llmConfidence, D(60, 2)))
      s2 == IF embeddingScore # Null
              THEN DAdd(s1, DMul(embeddingScore[1], D(30, 2)))
              ELSE s1
      s3 == IF bundleDetection.isBundle
              THEN DSub(s2, DMul(D(10, 2), DSub(DOne, bundleDetection.confidence)))
              ELSE s2
  IN  DMin(DOne, DMax(DZero, s3))

calculateConfidence(llmConfidence, embeddingScore, bundleDetection) ==
  LET s1 == DAdd(DZero, DMul(llmConfidence, WEIGHTS.llmConfidence))
      s2 == IF embeddingScore # Null
              THEN DAdd(s1, DMul(embeddingScore[1], WEIGHTS.embeddingScore))
              ELSE s1
      s3 == IF bundleDetection.isBundle
              THEN DSub(s2, DMul(WEIGHTS.bundleAdjustment,
                                 DSub(DOne, bundleDetection.confidence)))
              ELSE s2
  IN  DMin(DOne, DMax(DZero, s3))

\* a comparison that also flags a confidence equal to the threshold
needsReviewInclusive(confidence, threshold) == DLeq(confidence, D(threshold, 2))

\* confidence a double, threshold in hundredths
needsReview(confidence, threshold) == DLess(confidence, D(threshold, 2))

\* a bundle's code moved one level up whenever it is deeper than allowed
adjustCategoryForBundleOneLevelUp(selectedCode, bundleDetection) ==
  IF ~bundleDetection.isBundle THEN selectedCode
  ELSE LET parts == selectedCode
           maxParts == bundleDetection.recommendedMaxDepth + 1
       IN  IF Len(parts) > maxParts THEN SubSeq(parts, 1, Len(parts) - 1) ELSE selectedCode

\* the cap taken without the segment of the vertical prefix
adjustCategoryForBundleNoPrefix(selectedCode, bundleDetection) ==
  IF ~bundleDetection.isBundle THEN selectedCode
  ELSE LET parts == selectedCode
           maxParts == bundleDetection.recommendedMaxDepth
       IN  IF Len(parts) > maxParts THEN SubSeq(parts, 1, maxParts) ELSE selectedCode

\* split('-') gives the segments a code is represented by, join('-') the
\* code of a list of segments
adjustCategoryForBundle(selectedCode, bundleDetection) ==
  IF ~bundleDetection.isBundle THEN selectedCode
  ELSE LET parts == selectedCode
           maxParts == bundleDetection.recommendedMaxDepth + 1
       IN  IF Len(parts) > maxParts THEN SubSeq(parts, 1, maxParts) ELSE selectedCode

\* a validation that takes the decision service's code at its word
validateSelectionTrusting(selectedCode, candidates) ==
  Some([code |-> selectedCode])

validateSelection(selectedCode, candidates) ==
  LET Hit(i) == candidates[i].code = selectedCode
      k == FirstIndex(Len(candidates), Hit)
  IN  IF k = 0 THEN Null ELSE Some(candidates[k])

buildSignals(bundleDetection, topCandidate) ==
  [isBundle |-> bundleDetection.isBundle,
   embeddingTopMatch |-> topCandidate.path,
   embeddingScore |-> topCandidate.score]

(***************************************************************************)
(* Decision parser (prompts.ts)                                            *)
(* A response text is a sequence of segments:                              *)
(*   "prose"  text without braces;  "fence" a code-fence line;             *)
(*   "object" a well-formed JSON object, from its { to its };              *)
(*   "braces" brace-delimited text that is not JSON, e.g. {see below};     *)
(*   "open"   text holding a { and no };  "close" text holding a } only.   *)
(***************************************************************************)
Num(n) == [t |-> "number", n |-> n]
Absent == [t |-> "absent", n |-> 0]
NotANumber == [t |-> "text", n |-> 0]

NoObj == [selected_code |-> <<>>, selectedCode |-> <<>>, confidence |-> Absent,
          reasoning |-> "", attributes |-> <<>>, attributesOk |-> TRUE]

Prose == [kind |-> "prose", obj |-> NoObj]
Fence == [kind |-> "fence", obj |-> NoObj]
Braces == [kind |-> "braces", obj |-> NoObj]
Open == [kind |-> "open", obj |-> NoObj]
Close == [kind |-> "close", obj |-> NoObj]
Object(o) == [kind |-> "object", obj |-> o]

\* a decision object {"selected_code": code, "confidence": c, "reasoning": "because"}
Decision(code, c) ==
  Object([NoObj EXCEPT !.selected_code = code, !.confidence = c, !.reasoning = "because"])

\* the same with the camel-case key {"selectedCode": code, ...}
DecisionCamel(code, c) ==
  Object([NoObj EXCEPT !.selectedCode = code, !.confidence = c, !.reasoning = "because"])

HasOpen(seg) == seg.kind \in {"object", "braces", "open"}
HasClose(seg) == seg.kind \in {"object", "braces", "close"}

\* response.match(/\{[\s\S]*\}/): the greedy match runs from the first {
\* to the last }; <<first, last>> are the segments holding them, <<>> when
\* nothing matches
jsonMatch(response) ==
  LET IsOpen(i) == HasOpen(response[i])
      first == FirstIndex(Len(response), IsOpen)
      closes == {i \in 1..Len(response) : HasClose(response[i])}
      last == IF closes = {} THEN 0 ELSE CHOOSE i \in closes : \A j \in closes : j <= i
  IN  IF first = 0 \/ last < first THEN Null ELSE Some(<<first, last>>)

\* JSON.parse of the matched text: it decodes when the match is exactly one
\* well-formed object and throws otherwise
jsonParse(response, m) ==
  IF m[1] = m[2] /\ response[m[1]].kind = "object" THEN Some(response[m[1]].obj) ELSE Null

\* Number(x) || 0
NumberOr(v, dflt) == IF v.t = "number" /\ v.n # 0 THEN v.n ELSE dflt

\* the number taken as it is
Clamp01None(x) == x

\* Math.min(1, Math.max(0, x)) in hundredths
Clamp01(x) == Min(100, Max(0, x))

\* a || b on strings or codes: the empty one is falsy
OrElse(a, b) == IF a # <<>> THEN a ELSE b

parseClassificationResponse(response) ==
  LET m == jsonMatch(response)
  IN  IF m = Null THEN Null
      ELSE LET parsed == jsonParse(response, m[1])
           IN  IF parsed = Null THEN Null
               ELSE Some([selectedCode |-> OrElse(parsed[1].selected_code, parsed[1].selectedCode),
                          confidence |-> Clamp01(NumberOr(parsed[1].confidence, 0)),
                          reasoning |-> parsed[1].reasoning])

\* parsed.attributes || [] mapped to {handle, value, confidence}; an
\* "attributes" value that cannot be mapped (not an array) throws inside
\* the try and yields []
parseAttributeResponse(response) ==
  LET m == jsonMatch(response)
  IN  IF m = Null THEN <<>>
      ELSE LET parsed == jsonParse(response, m[1])
           IN  IF parsed = Null \/ ~parsed[1].attributesOk THEN <<>>
               ELSE [i \in 1..Len(parsed[1].attributes) |->
                       [handle |-> parsed[1].attributes[i].handle,
                        value |-> parsed[1].attributes[i].value,
                        confidence |-> Clamp01(NumberOr(parsed[1].attributes[i].confidence, 50))]]

(***************************************************************************)
(* Search text (candidates.ts)                                             *)
(* An HTML tag of a description is one token; WS is one blank.             *)
(***************************************************************************)
DESCRIPTION_LIMIT == 500
SEARCH_TAG_LIMIT == 5

\* the separator parts.join(' | ') writes between two parts
SEP == " | "

HtmlTags == {"<p>", "</p>", "<br>"}

\* .replace(/<[^>]*>/g, ' ')
StripHtml(s) == [i \in 1..Len(s) |-> IF s[i] \in HtmlTags THEN WS ELSE s[i]]

\* .replace(/\s+/g, ' '): a run of blanks becomes one blank
RECURSIVE CollapseBlanks(_)
CollapseBlanks(s) ==
  IF Len(s) < 2 THEN s
  ELSE IF s[1] = WS /\ s[2] = WS THEN CollapseBlanks(Tail(s))
  ELSE <<s[1]>> \o CollapseBlanks(Tail(s))

\* a single character between the two words of /^staff.?pick$/
AnyChar == {WS, "-", "_"}

\* marketingPatterns.some(pattern => pattern.test(tag.trim())), all /i
isMarketingTag(tag) ==
  LET t == ToLowerCase(Trim(tag))
      pairs == {<<"staff", "pick">>, <<"best", "seller">>}
  IN  \/ t \in {<<"new">>, <<"sale">>, <<"featured">>, <<"trending">>, <<"popular">>,
                <<"limited">>, <<"exclusive">>}
      \/ t \in pairs
      \/ /\ Len(t) = 3
         /\ <<t[1], t[3]>> \in pairs
         /\ t[2] \in AnyChar

\* array.join(sep) of a list of strings
RECURSIVE Join(_, _)
Join(parts, sep) ==
  IF parts = <<>> THEN <<>>
  ELSE IF Len(parts) = 1 THEN parts[1]
  ELSE parts[1] \o <<sep>> \o Join(Tail(parts), sep)

\* the earlier text, which put the merchant's type label after the title
buildSearchTextWithProductType(input) ==
  LET cleanDesc == Slice0(Trim(CollapseBlanks(StripHtml(input.description))),
                          DESCRIPTION_LIMIT)
      productTags == Slice0(input.tags, SEARCH_TAG_LIMIT)
  IN  Join(<<input.title>>
           \o (IF input.productType # <<>> THEN <<input.productType>> ELSE <<>>)
           \o (IF cleanDesc # <<>> THEN <<cleanDesc>> ELSE <<>>)
           \o (IF productTags # <<>> THEN <<Join(productTags, WS)>> ELSE <<>>),
           SEP)

\* buildSearchText(input): title | cleaned description | product tags.
\* The descriptions explored are shorter than the limit in characters as
\* well as in tokens, so the slice keeps them whole either way.
buildSearchText(input) ==
  LET cleanDesc == Slice0(Trim(CollapseBlanks(StripHtml(input.description))),
                          DESCRIPTION_LIMIT)
      keep == [i \in 1..Len(input.tags) |-> ~isMarketingTag(input.tags[i])]
      productTags == Slice0(SelectSeqRec(input.tags, keep), SEARCH_TAG_LIMIT)
  IN  Join(<<input.title>>
           \o (IF cleanDesc # <<>> THEN <<cleanDesc>> ELSE <<>>)
           \o (IF productTags # <<>> THEN <<Join(productTags, WS)>> ELSE <<>>),
           SEP)

(***************************************************************************)
(* Requests, products and service outcomes the model explores              *)
(***************************************************************************)
NoProduct == [title |-> <<>>, description |-> <<>>, productType |-> <<>>,
              tags |-> <<>>, variants |-> <<>>]

\* a plain product whose type label has a curated mapping
ChocolateBar ==
  [NoProduct EXCEPT !.title = <<"dark", "Chocolate", "bar">>,
                    !.productType = <<" ", "Granola", " ">>,
                    !.tags = << <<"dark", "-", "chocolate">> >>]

\* a variety pack: title, tag and variants all signal a bundle
GranolaSampler ==
  [NoProduct EXCEPT !.title = <<"Variety", "Pack", "granola">>,
                    !.productType = <<"Granola">>,
                    !.tags = << <<"Sampler">> >>,
                    !.variants = << [title |-> <<"maple", "pecan">>],
                                    [title |-> <<"honey", "oat">>],
                                    [title |-> <<"vanilla">>],
                                    [title |-> <<"large">>] >>]

\* a bundle at the detection boundary (one tag, confidence 0.4)
CheesePantry ==
  [NoProduct EXCEPT !.title = <<"cheese", "pantry">>,
                    !.description = <<"crackers", "and", "honey">>,
                    !.tags = << <<"cheese">>, <<"GIFT">> >>]

\* pack-count variants only, type label mapped to a code outside the hierarchy
ColaPacks ==
  [NoProduct EXCEPT !.title = <<"cola">>,
                    !.productType = <<"Chocolate">>,
                    !.variants = << [title |-> <<"2", "-", "pack">>],
                                    [title |-> <<"6", "-", "pack">>],
                                    [title |-> <<"12", "pack">>] >>]

Products == {ChocolateBar, GranolaSampler, CheesePantry, ColaPacks}

\* the products batches are drawn from
BatchProducts == {ChocolateBar, CheesePantry}

\* ClassifierConfig after the defaults are merged in
DEFAULT_CONFIG ==
  [confidenceThreshold |-> DEFAULT_CONFIDENCE_THRESHOLD,
   maxCandidates |-> DEFAULT_MAX_CANDIDATES,
   extractAttributes |-> TRUE]

Configs ==
  [confidenceThreshold : {50, DEFAULT_CONFIDENCE_THRESHOLD},
   maxCandidates : {1, DEFAULT_MAX_CANDIDATES},
   extractAttributes : BOOLEAN]

\* the codes a decision may name: candidates' codes, a code no candidate
\* has, and no code at all
DecisionCodes ==
  { <<"fb", "1", "1">>, <<"fb", "1", "1", "1">>, <<"fb", "1", "1", "1", "1">>,
    <<"fb", "2">>, <<"fb", "9", "9", "9">>, <<"fb", "99">>, <<>> }

\* the texts the decision service may answer a selection request with
SelectionResponses ==
  { <<Decision(code, Num(c))>> : code \in DecisionCodes, c \in {60, 90, 150} }
  \cup { <<>>,
         <<Prose>>,
         <<Braces>>,
         <<Prose, Open>>,
         <<Prose, Fence, Decision(<<"fb", "1", "1">>, Num(100)), Fence>>,
         <<Decision(<<"fb", "1", "1">>, Num(90)), Prose, Braces>>,
         <<DecisionCamel(<<"fb", "2">>, Absent)>>,
         <<Decision(<<"fb", "1", "1", "1">>, Num(-20))>>,
         <<Object(NoObj)>> }

Attr(h, c) == [handle |-> h, value |-> "v", confidence |-> c]

\* the texts the decision service may answer an attribute request with
AttributeResponses ==
  { <<Prose>>,
    <<Object([NoObj EXCEPT !.attributes = <<Attr("flavor", Num(90)), Attr("color", Absent)>>])>>,
    <<Object([NoObj EXCEPT !.attributesOk = FALSE])>>,
    <<Object(NoObj)>> }

(***************************************************************************)
(* Access control (auth/roles.ts, auth/middleware.ts)                      *)
(* A header that is not sent is the empty sequence.  A JWT is its sequence *)
(* of dot-separated parts; its payload is the decoded JSON value.          *)
(***************************************************************************)
USER_ROLES ==
  [email \in {"wilfred@getintothebubble.com", "alan@getintothebubble.com",
              "greg@getintothebubble.com"} |-> "privileged"]
SERVICE_ROLES == [id \in {} |-> "privileged"]
DEFAULT_ROLE == "basic"

\* table[key] ?? fallback
LookupOr(table, key, fallback) == IF key \in DOMAIN table THEN table[key] ELSE fallback

Jwt(payload) == <<"header", payload, "signature">>

\* decodeEmailFromJwt(jwt): the payload's email, or null
decodeEmailFromJwt(jwt) ==
  IF Len(jwt) # 3 THEN Null
  ELSE IF jwt[2].json /\ jwt[2].email # "" THEN Some(jwt[2].email) ELSE Null

\* what a request carries for the auth middleware
Credentials ==
  [clientId : {<<>>, <<"unlisted-client-id">>},
   jwt : {<<>>, <<"garbage">>, Jwt([json |-> FALSE, email |-> ""]),
          Jwt([json |-> TRUE, email |-> ""]),
          Jwt([json |-> TRUE, email |-> "wilfred@getintothebubble.com"]),
          Jwt([json |-> TRUE, email |-> "alan@getintothebubble.com"]),
          Jwt([json |-> TRUE, email |-> "guest@getintothebubble.com"])},
   environment : {"production", "development"},
   mockEmail : {<<>>, <<"guest@getintothebubble.com">>}]

Denied(http) == [http |-> http, auth |-> Null]
Granted(identity, role, isService) ==
  [http |-> 0, auth |-> Some([identity |-> identity, role |-> role, isService |-> isService])]

\* authMiddleware(): the 401 it answers, or the auth context it attaches
authMiddleware(cr) ==
  IF cr.clientId # <<>>
    THEN Granted(cr.clientId[1], LookupOr(SERVICE_ROLES, cr.clientId[1], "basic"), TRUE)
  ELSE IF cr.jwt # <<>>
    THEN LET email == decodeEmailFromJwt(cr.jwt)
         IN  IF email = Null THEN Denied(401)
             ELSE Granted(email[1], LookupOr(USER_ROLES, email[1], DEFAULT_ROLE), FALSE)
  ELSE IF cr.environment = "development"
    THEN IF cr.mockEmail # <<>>
           THEN Granted(cr.mockEmail[1],
                        LookupOr(USER_ROLES, cr.mockEmail[1], DEFAULT_ROLE), FALSE)
           ELSE Granted("dev@local", "privileged", FALSE)
  ELSE Denied(401)

\* the role authMiddleware resolves for a request's credentials ("none"
\* when it resolves no identity)
resolvedRole(cr) ==
  LET a == authMiddleware(cr)
  IN  IF a.auth = Null THEN "none" ELSE a.auth[1].role

(***************************************************************************)
(* State                                                                   *)
(***************************************************************************)
VARIABLES
  req,      \* the request being served: who calls, what with
  handler,  \* the caller's side: its loop position, collected results, response
  calls,    \* calls[k]: the classify / classifyOffline call for product k
  probe     \* one application of a library function on its own: arguments, result

vars == <<req, handler, calls, probe>>

\* an error message is the sequence of the pieces of its text
NoCandidatesMessage == <<"No category candidates found for product">>
ParseFailedMessage == <<"Failed to parse LLM classification response">>
ServiceFailedMessage == <<"decision service request failed">>

\* `Category not found: ${adjustedCode}`
CategoryNotFoundMessage(adjustedCode) == <<"Category not found: ">> \o adjustedCode

NoBundle == [isBundle |-> FALSE, confidence |-> DZero, signals |-> <<>>,
             recommendedMaxDepth |-> MAX_TAXONOMY_DEPTH]

\* a call that has not begun
FreshCall ==
  [pc |-> "init", input |-> NoProduct, bundle |-> NoBundle,
   typeCandidates |-> <<>>, embedding |-> <<>>, retrievalFailed |-> FALSE,
   searchText |-> <<>>, candidates |-> <<>>, response |-> Null, attrResponse |-> Null, parsed |-> Null, finalCode |-> <<>>, adjustedCode |-> <<>>,
   confidence |-> DZero, output |-> Null, error |-> Null, cause |-> "none",
   nEmbed |-> 0, nSearch |-> 0, nSelect |-> 0, nAttr |-> 0]

IdleRequest ==
  [kind |-> "none", fn |-> "classify", withMappings |-> FALSE,
   mappings |-> <<>>, products |-> <<>>, config |-> DEFAULT_CONFIG]

NoMeta == [count |-> 0, succeeded |-> 0, failed |-> 0]

IdleHandler ==
  [status |-> "idle", results |-> <<>>, http |-> 0, body |-> "none", meta |-> NoMeta]

\* no library function is being applied on its own
NoProbe == [pc |-> "none"]

Init ==
  /\ req = IdleRequest
  /\ handler = IdleHandler
  /\ calls = [k \in 1..MaxBatch |-> FreshCall]
  /\ probe = NoProbe

\* throw new Error(message); cause records which condition raised it
Throw(c, message, cause) ==
  [c EXCEPT !.pc = "failed", !.cause = cause,
            !.error = Some([type |-> "Error", message |-> message])]

\* an exception of the decision-service client leaving classify
ThrowService(c) ==
  [c EXCEPT !.pc = "failed", !.cause = "service",
            !.error = Some([type |-> "APIError", message |-> ServiceFailedMessage])]

(***************************************************************************)
(* classify and classifyOffline (classify.ts), cut at their awaits         *)
(***************************************************************************)
\* maxDepth passed to getCandidates
maxDepthOf(bundleDetection) ==
  IF bundleDetection.isBundle THEN bundleDetection.recommendedMaxDepth ELSE NoLevel

\* classify / classifyOffline up to the first await: bundle detection, the
\* mapping lookup of getCandidates, and the embedding request being issued
beginCall(input, withMappings, mappings) ==
  [FreshCall EXCEPT
     !.pc = "embedding",
     !.input = input,
     !.bundle = detectBundle(input),
     !.typeCandidates = IF withMappings THEN productTypeCandidates(input, mappings)
                        ELSE <<>>,
     !.searchText = buildSearchText(input),
     !.nEmbed = 1]

\* candidates.length === 0
noCandidates(candidates) == Len(candidates) = 0

\* an offline result flagged by the threshold like classify's
offlineNeedsReviewByThreshold(confidence, threshold) == needsReview(confidence, threshold)

\* needsReview of classifyOffline's result: always true
offlineNeedsReview(confidence, threshold) == TRUE

\* the rest of classifyOffline once the candidates are known
offlineResult(c, cfg) ==
  LET topCandidate == c.candidates[1]
      adjustedCode == adjustCategoryForBundle(topCandidate.code, c.bundle)
      category == getCategoryByCode(adjustedCode)
      confidence == calculateConfidence(D(OFFLINE_LLM_CONFIDENCE, 2),
                                        Some(D(topCandidate.score, 2)), c.bundle)
  IN  IF category = Null
        THEN Throw([c EXCEPT !.finalCode = topCandidate.code, !.adjustedCode = adjustedCode],
                   CategoryNotFoundMessage(adjustedCode), "categoryNotFound")
        ELSE [c EXCEPT
                !.pc = "done",
                !.finalCode = topCandidate.code,
                !.adjustedCode = adjustedCode,
                !.confidence = confidence,
                !.output = Some([category |-> [code |-> adjustedCode,
                                               path |-> category[1].full_name,
                                               gid |-> adjustedCode,
                                               confidence |-> confidence],
                                 attributes |-> <<>>,
                                 reasoning |-> "Selected top embedding match (offline mode)",
                                 needsReview |-> offlineNeedsReview(confidence, cfg.confidenceThreshold),
                                 signals |-> buildSignals(c.bundle, topCandidate)])]

\* classify testing for an empty candidate list only after the selection
\* call has been issued
afterCandidatesSelectFirst(c, fn, cfg) ==
  IF fn = "classifyOffline"
    THEN (IF Len(c.candidates) = 0 THEN Throw(c, NoCandidatesMessage, "noCandidates")
          ELSE offlineResult(c, cfg))
    ELSE [c EXCEPT !.pc = "selecting", !.nSelect = @ + 1]

\* what follows `const candidates = await getCandidates(...)`
afterCandidates(c, fn, cfg) ==
  IF noCandidates(c.candidates)
    THEN Throw(c, NoCandidatesMessage,
               IF c.retrievalFailed /\ c.typeCandidates = <<>> THEN "retrievalFailed"
               ELSE "noCandidates")
  ELSE IF fn = "classifyOffline" THEN offlineResult(c, cfg)
  ELSE [c EXCEPT !.pc = "selecting", !.nSelect = @ + 1]

\* the candidate list getCandidates returns, given what the embedding
\* search produced
candidatesOf(c, withMappings, embeddingCandidates, maxCandidates) ==
  IF withMappings THEN mergeCandidates(c.typeCandidates, embeddingCandidates, maxCandidates)
  ELSE embeddingOnlyCandidates(embeddingCandidates, maxCandidates)

\* a fallback that takes the last candidate instead of the first
resolveFinalCodeLast(selectedCandidate, candidates) ==
  IF selectedCandidate # Null THEN selectedCandidate[1].code
  ELSE candidates[Len(candidates)].code

\* finalCode = selectedCandidate?.code ?? candidates[0].code
resolveFinalCode(selectedCandidate, candidates) ==
  IF selectedCandidate # Null THEN selectedCandidate[1].code ELSE candidates[1].code

\* the attributes of the category that getAttributeByHandle resolves
availableAttributes(category) ==
  {HandleOfName(name) : name \in category.attributes} \cap AttributesIndex

\* an extraction step that does not look at the configuration
asksForAttributesAlways(cfg, category) ==
  availableAttributes(category) # {}

\* cfg.extractAttributes && category.attributes, and extractAttributes
\* finding at least one attribute to ask about
asksForAttributes(cfg, category) ==
  cfg.extractAttributes /\ availableAttributes(category) # {}

\* an output flagged for review whenever the fallback replaced the
\* decision service's code
buildOutputFlaggingFallback(c, cfg, category, attributes) ==
  [category |-> [code |-> c.adjustedCode,
                 path |-> category.full_name,
                 gid |-> c.adjustedCode,
                 confidence |-> c.confidence],
   attributes |-> attributes,
   reasoning |-> c.parsed[1].reasoning,
   needsReview |-> \/ needsReview(c.confidence, cfg.confidenceThreshold)
                   \/ c.finalCode # c.parsed[1].selectedCode,
   signals |-> buildSignals(c.bundle, c.candidates[1])]

\* the ClassificationOutput classify assembles
buildOutput(c, cfg, category, attributes) ==
  [category |-> [code |-> c.adjustedCode,
                 path |-> category.full_name,
                 gid |-> c.adjustedCode,
                 confidence |-> c.confidence],
   attributes |-> attributes,
   reasoning |-> c.parsed[1].reasoning,
   needsReview |-> needsReview(c.confidence, cfg.confidenceThreshold),
   signals |-> buildSignals(c.bundle, c.candidates[1])]

\* a parse failure answered by settling on the top candidate
parseFailedFallsBack(c) ==
  [c EXCEPT !.pc = "done", !.finalCode = c.candidates[1].code,
            !.adjustedCode = c.candidates[1].code,
            !.output = Some([category |-> [code |-> c.candidates[1].code,
                                           path |-> c.candidates[1].path,
                                           gid |-> c.candidates[1].code,
                                           confidence |-> DZero],
                             attributes |-> <<>>, reasoning |-> "", needsReview |-> TRUE,
                             signals |-> buildSignals(c.bundle, c.candidates[1])])]

\* what a decision-parse failure does to the call
parseFailed(c) == Throw(c, ParseFailedMessage, "decisionParse")

\* classify from the selection response to its next await or its end
afterSelection(c, cfg, responseText) ==
  LET parsed == parseClassificationResponse(responseText)
  IN  IF parsed = Null THEN parseFailed(c)
      ELSE
        LET selectedCandidate == validateSelection(parsed[1].selectedCode, c.candidates)
            finalCode == resolveFinalCode(selectedCandidate, c.candidates)
            adjustedCode == adjustCategoryForBundle(finalCode, c.bundle)
            category == getCategoryByCode(adjustedCode)
            c1 == [c EXCEPT !.parsed = parsed, !.finalCode = finalCode,
                            !.adjustedCode = adjustedCode]
        IN  IF category = Null THEN Throw(c1, CategoryNotFoundMessage(adjustedCode), "categoryNotFound")
            ELSE
              LET c2 == [c1 EXCEPT !.confidence =
                           calculateConfidence(D(parsed[1].confidence, 2),
                                               Some(D(c.candidates[1].score, 2)),
                                               c.bundle)]
              IN  IF asksForAttributes(cfg, category[1])
                    THEN [c2 EXCEPT !.pc = "extracting", !.nAttr = @ + 1]
                    ELSE [c2 EXCEPT !.pc = "done",
                                    !.output = Some(buildOutput(c2, cfg, category[1], <<>>))]

\* attrDef?.name ?? a.handle
nameOfHandle(handle, category) ==
  IF \E name \in category.attributes :
       HandleOfName(name) = handle /\ handle \in AttributesIndex
    THEN CHOOSE name \in category.attributes : HandleOfName(name) = handle
    ELSE handle

\* an attribute parser without its try/catch: an undecodable response
\* throws out of classify
afterAttributesStrict(c, cfg, responseText) ==
  LET m == jsonMatch(responseText)
      decoded == IF m = Null THEN Null ELSE jsonParse(responseText, m[1])
      category == getCategoryByCode(c.adjustedCode)[1]
      parsed == parseAttributeResponse(responseText)
      attributes == [i \in 1..Len(parsed) |->
                       [handle |-> parsed[i].handle,
                        name |-> nameOfHandle(parsed[i].handle, category),
                        value |-> parsed[i].value,
                        confidence |-> parsed[i].confidence]]
  IN  IF decoded = Null \/ ~decoded[1].attributesOk
        THEN Throw(c, ParseFailedMessage, "attributeParse")
        ELSE [c EXCEPT !.pc = "done",
                       !.output = Some(buildOutput(c, cfg, category, attributes))]

\* extractAttributes from its response to classify's return
afterAttributes(c, cfg, responseText) ==
  LET category == getCategoryByCode(c.adjustedCode)[1]
      parsed == parseAttributeResponse(responseText)
      attributes == [i \in 1..Len(parsed) |->
                       [handle |-> parsed[i].handle,
                        name |-> nameOfHandle(parsed[i].handle, category),
                        value |-> parsed[i].value,
                        confidence |-> parsed[i].confidence]]
  IN  [c EXCEPT !.pc = "done", !.output = Some(buildOutput(c, cfg, category, attributes))]

(***************************************************************************)
(* Actions                                                                 *)
(***************************************************************************)
\* sequences of 1..n elements of S
SeqsUpTo(S, n) == UNION {[1..m -> S] : m \in 1..n}

\* POST /classify: one product, classify(product, config)
ReceiveSingle ==
  /\ handler.status = "idle"
  /\ \E p \in Products, cfg \in Configs :
       /\ req' = [kind |-> "single", fn |-> "classify",
                  withMappings |-> FALSE, mappings |-> <<>>,
                  products |-> <<p>>, config |-> cfg]
       /\ handler' = [handler EXCEPT !.status = "running"]
  /\ UNCHANGED <<calls, probe>>

\* POST /classify/batch: 1..10 products, classify(product, config) for each
ReceiveBatch ==
  /\ handler.status = "idle"
  /\ \E ps \in SeqsUpTo(BatchProducts, MaxBatch), x \in BOOLEAN :
       /\ req' = [kind |-> "batch", fn |-> "classify",
                  withMappings |-> FALSE, mappings |-> <<>>,
                  products |-> ps,
                  config |-> [DEFAULT_CONFIG EXCEPT !.extractAttributes = x]]
       /\ handler' = [handler EXCEPT !.status = "running"]
  /\ UNCHANGED <<calls, probe>>

\* a direct call of the library, as the calibration script makes it:
\* classify or classifyOffline, of the version that takes mappings (m) or
\* of the one that does not
ReceiveDirect ==
  /\ handler.status = "idle"
  /\ \E p \in Products, cfg \in Configs, fn \in {"classify", "classifyOffline"},
        m \in BOOLEAN, mappings \in MappingLists :
       /\ (fn = "classify" => m)
       /\ (~m => mappings = <<>>)
       /\ req' = [kind |-> "direct", fn |-> fn, withMappings |-> m,
                  mappings |-> mappings, products |-> <<p>>, config |-> cfg]
  /\ handler' = [handler EXCEPT !.status = "running"]
  /\ UNCHANGED <<calls, probe>>

\* a loop that starts every product's call without awaiting the previous one
loopAtAny(k) == TRUE

\* the handler's loop reaches product k: `for (const product of products)`
\* awaits each classify before the next iteration
loopAt(k) == k = Len(handler.results) + 1

\* the handler calls classify for product k
Begin(k) ==
  /\ handler.status = "running"
  /\ k <= Len(req.products)
  /\ calls[k].pc = "init"
  /\ loopAt(k)
  /\ calls' = [calls EXCEPT ![k] = beginCall(req.products[k], req.withMappings, req.mappings)]
  /\ UNCHANGED <<req, handler, probe>>

\* a catch block that issues the embedding request a second time
embeddingSearchRetried(c, fn, withMappings, cfg) ==
  IF c.nEmbed < 2
    THEN [c EXCEPT !.pc = "embedding", !.nEmbed = @ + 1, !.retrievalFailed = TRUE]
    ELSE afterCandidates([c EXCEPT !.retrievalFailed = TRUE,
                                   !.candidates = candidatesOf(c, withMappings, <<>>,
                                                               cfg.maxCandidates)],
                         fn, cfg)

\* a catch block that rethrows the failure of the search
embeddingSearchRethrown(c, fn, withMappings, cfg) ==
  [c EXCEPT !.pc = "failed", !.retrievalFailed = TRUE, !.cause = "retrievalFailed",
            !.error = Some([type |-> "Error", message |-> <<"Embedding search failed">>])]

\* what getCandidatesFromEmbeddings' catch block does with a failure of
\* the embedding request or of the vector query: it returns no candidates
embeddingSearchFailed(c, fn, withMappings, cfg) ==
  LET c1 == [c EXCEPT !.retrievalFailed = TRUE,
                      !.candidates = candidatesOf(c, withMappings, <<>>, cfg.maxCandidates)]
  IN  afterCandidates(c1, fn, cfg)

\* the embedding service answers call k: a vector, or a failure
EmbeddingReturns(k) ==
  /\ calls[k].pc = "embedding"
  /\ \E e \in Embeddings \cup {<<>>} :
       calls' = [calls EXCEPT ![k] =
                   IF e = <<>>
                     THEN embeddingSearchFailed(calls[k], req.fn, req.withMappings, req.config)
                     ELSE [calls[k] EXCEPT !.pc = "searching", !.embedding = e,
                                           !.nSearch = @ + 1]]
  /\ UNCHANGED <<req, handler, probe>>

\* the vector store answers call k: the rows, or a failure
SearchReturns(k) ==
  /\ calls[k].pc = "searching"
  /\ \E ok \in BOOLEAN :
       calls' = [calls EXCEPT ![k] =
                   IF ~ok
                     THEN embeddingSearchFailed(calls[k], req.fn, req.withMappings, req.config)
                     ELSE LET found == matchTaxonomyCategories(
                                         calls[k].embedding, EMBEDDING_MATCH_THRESHOLD,
                                         req.config.maxCandidates,
                                         maxDepthOf(calls[k].bundle), FOOD_CATEGORY_PREFIX)
                              c1 == [calls[k] EXCEPT !.candidates =
                                       candidatesOf(calls[k], req.withMappings, found,
                                                    req.config.maxCandidates)]
                          IN  afterCandidates(c1, req.fn, req.config)]
  /\ UNCHANGED <<req, handler, probe>>

\* the decision service answers the selection request of call k: a text
\* block, a non-text block (read as ''), or a failure
SelectionReturns(k) ==
  /\ calls[k].pc = "selecting"
  /\ \E ok \in BOOLEAN, r \in SelectionResponses :
       calls' = [calls EXCEPT ![k] =
                   IF ~ok THEN ThrowService(calls[k])
                   ELSE afterSelection([calls[k] EXCEPT !.response = Some(r)], req.config, r)]
  /\ UNCHANGED <<req, handler, probe>>

\* the decision service answers the attribute request of call k
AttributesReturn(k) ==
  /\ calls[k].pc = "extracting"
  /\ \E ok \in BOOLEAN, r \in AttributeResponses :
       calls' = [calls EXCEPT ![k] =
                   IF ~ok THEN ThrowService(calls[k])
                   ELSE afterAttributes([calls[k] EXCEPT !.attrResponse = Some(r)],
                                        req.config, r)]
  /\ UNCHANGED <<req, handler, probe>>

\* the entry the caller keeps of a finished call
resultEntry(k, c) ==
  [index |-> k, product |-> c.input, success |-> c.pc = "done", caught |-> c.error,
   cause |-> c.cause,
   code |-> IF c.pc = "done" THEN c.output[1].category.code ELSE <<>>]

\* a batch loop without its inner try/catch: a throwing product reaches
\* the handler's outer catch, which answers 500 for the whole batch
CollectAborting(k) ==
  /\ calls[k].pc \in {"done", "failed"}
  /\ calls' = [calls EXCEPT ![k] = [FreshCall EXCEPT !.pc = "returned"]]
  /\ handler' =
       IF req.kind = "batch" /\ calls[k].pc = "done"
         THEN [handler EXCEPT !.results = Append(@, resultEntry(k, calls[k]))]
         ELSE [handler EXCEPT !.results = Append(@, resultEntry(k, calls[k])),
                              !.status = "responded",
                              !.http = IF calls[k].pc = "done" THEN 200 ELSE 500,
                              !.body = IF calls[k].pc = "done" THEN "result"
                                       ELSE IF req.kind = "batch"
                                         THEN "Batch classification failed"
                                         ELSE "Classification failed"]
  /\ UNCHANGED <<req, probe>>

\* call k returns or throws into the awaiting caller
Collect(k) ==
  /\ calls[k].pc \in {"done", "failed"}
  /\ calls' = [calls EXCEPT ![k] = [FreshCall EXCEPT !.pc = "returned"]]
  /\ handler' =
       IF req.kind = "batch"
         THEN [handler EXCEPT !.results = Append(@, resultEntry(k, calls[k]))]
         ELSE [handler EXCEPT !.results = Append(@, resultEntry(k, calls[k])),
                              !.status = "responded",
                              !.http = IF calls[k].pc = "done" THEN 200 ELSE 500,
                              !.body = IF calls[k].pc = "done" THEN "result"
                                       ELSE "Classification failed"]
  /\ UNCHANGED <<req, probe>>

\* results.filter((r) => r.success) and results.filter((r) => !r.success)
Succeeded(r) == r.success
Failed(r) == ~r.success

\* the batch handler answers after its loop
RespondBatch ==
  /\ req.kind = "batch"
  /\ handler.status = "running"
  /\ Len(handler.results) = Len(req.products)
  /\ handler' = [handler EXCEPT
                   !.status = "responded", !.http = 200, !.body = "results",
                   !.meta = [count |-> Len(req.products),
                             succeeded |-> Len(SelectSeq(handler.results, Succeeded)),
                             failed |-> Len(SelectSeq(handler.results, Failed))]]
  /\ UNCHANGED <<req, calls, probe>>

Next ==
  \/ ReceiveSingle
  \/ ReceiveBatch
  \/ ReceiveDirect
  \/ \E k \in 1..MaxBatch : Begin(k)
  \/ \E k \in 1..MaxBatch : EmbeddingReturns(k)
  \/ \E k \in 1..MaxBatch : SearchReturns(k)
  \/ \E k \in 1..MaxBatch : SelectionReturns(k)
  \/ \E k \in 1..MaxBatch : AttributesReturn(k)
  \/ \E k \in 1..MaxBatch : Collect(k)
  \/ RespondBatch

Spec == Init /\ [][Next]_vars

(***************************************************************************)
(* The library functions applied on their own                              *)
(* Each specification draws the arguments of one function in its initial   *)
(* state and applies the function in one step; the request machinery       *)
(* stays idle.                                                             *)
(***************************************************************************)
Idle ==
  /\ req = IdleRequest
  /\ handler = IdleHandler
  /\ calls = [k \in 1..MaxBatch |-> FreshCall]

\* decision confidences and similarities a caller may pass: decimals in
\* range and beyond it (written in hundredths), the infinities and NaN; no
\* similarity at all is Null
NonFinite == {Infinity, NegInfinity, NaN}
LlmConfidences == {D(n, 2) : n \in {-50, 0, 50, 90, 94, 100, 150, 1000}} \cup NonFinite
EmbeddingScores ==
  {Null} \cup {Some(D(n, 2)) : n \in {-50, -1, 0, 30, 81, 85, 100, 150}}
         \cup {Some(x) : x \in NonFinite}

\* BundleDetection values a caller may pass; 0.4 + 0.2 is the confidence
\* detectBundle gives a title and a description match
BundleDetections ==
  [isBundle : BOOLEAN,
   confidence : {DZero, D(40, 2), DAdd(D(40, 2), D(20, 2)), DOne, D(250, 2)} \cup NonFinite,
   signals : {<<>>},
   recommendedMaxDepth : {BUNDLE_MAX_DEPTH, MAX_TAXONOMY_DEPTH}]

InitConfidence ==
  /\ Idle
  /\ probe \in [pc : {"input"}, llmConfidence : LlmConfidences,
                 embeddingScore : EmbeddingScores, bundleDetection : BundleDetections,
                 result : {DZero}]

\* calculateConfidence({llmConfidence, embeddingScore, bundleDetection})
ApplyCalculateConfidence ==
  /\ probe.pc = "input"
  /\ probe' = [probe EXCEPT !.pc = "output",
                            !.result = calculateConfidence(probe.llmConfidence,
                                                           probe.embeddingScore,
                                                           probe.bundleDetection)]
  /\ UNCHANGED <<req, handler, calls>>

NextConfidence == ApplyCalculateConfidence

SpecConfidence == InitConfidence /\ [][NextConfidence]_vars

\* variant lists: none, pack counts, sizes, flavours, too few flavours,
\* one flavour written three ways
VariantLists ==
  { <<>>,
    << [title |-> <<"6", "-", "pack">>], [title |-> <<"12", "-", "pack">>],
       [title |-> <<"24", "-", "pack">>], [title |-> <<"2", "-", "pack">>] >>,
    << [title |-> <<"small">>], [title |-> <<"8", "oz">>], [title |-> <<"Large">>] >>,
    << [title |-> <<"maple", "pecan">>], [title |-> <<"honey", "oat">>],
       [title |-> <<"Vanilla">>], [title |-> <<"large">>] >>,
    << [title |-> <<"maple", "pecan">>], [title |-> <<"honey", "oat">>],
       [title |-> <<"6", " ", "count">>], [title |-> <<>>] >>,
    << [title |-> <<"vanilla">>], [title |-> <<"Vanilla">>],
       [title |-> <<" ", "vanilla", " ">>] >> }

\* products for the bundle detector: every field with no keyword, with one
\* and with several
BundleInputs ==
  [title : {<<"cola">>, <<"Variety", "Pack", "granola">>, <<"Gift", "Box", "sampler">>},
   description : {<<>>, <<"crackers", "and", "honey">>, <<"Assorted", "mixed", "flavors">>},
   productType : {<<>>, <<"Granola">>, <<"Gift", "Box">>},
   tags : {<<>>, << <<"cheese">>, <<"GIFT">> >>, << <<"Sampler">>, <<"bundle">> >>},
   variants : VariantLists]

InitBundle ==
  /\ Idle
  /\ probe \in [pc : {"input"}, input : BundleInputs, result : {NoBundle}]

\* detectBundle(input)
ApplyDetectBundle ==
  /\ probe.pc = "input"
  /\ probe' = [probe EXCEPT !.pc = "output", !.result = detectBundle(probe.input)]
  /\ UNCHANGED <<req, handler, calls>>

NextBundle == ApplyDetectBundle

SpecBundle == InitBundle /\ [][NextBundle]_vars

\* category codes of 1 to 9 segments, one with empty segments, and ''
AdjustCodes ==
  { SubSeq(<<"fb", "1", "2", "3", "4", "5", "6", "7", "8">>, 1, n) : n \in 1..9 }
  \cup { <<"fb", "", "1", "", "2">>, <<"">> }

\* bundle detections with recommended depths from 0 to the hierarchy's
AdjustDetections ==
  [isBundle : BOOLEAN, confidence : {50}, signals : {<<>>},
   recommendedMaxDepth : {0, 1, BUNDLE_MAX_DEPTH, MAX_TAXONOMY_DEPTH}]

InitAdjust ==
  /\ Idle
  /\ probe \in [pc : {"input"}, selectedCode : AdjustCodes,
                 bundleDetection : AdjustDetections, result : {<<>>}, again : {<<>>}]

\* adjustCategoryForBundle(selectedCode, bundleDetection), and the same
\* applied to what it returned
ApplyAdjustCategoryForBundle ==
  /\ probe.pc = "input"
  /\ LET adjusted == adjustCategoryForBundle(probe.selectedCode, probe.bundleDetection)
     IN  probe' = [probe EXCEPT
                     !.pc = "output",
                     !.result = adjusted,
                     !.again = adjustCategoryForBundle(adjusted, probe.bundleDetection)]
  /\ UNCHANGED <<req, handler, calls>>

NextAdjust == ApplyAdjustCategoryForBundle

SpecAdjust == InitAdjust /\ [][NextAdjust]_vars

\* how a decision object may sit in the response text
Layout(l, d) ==
  CASE l = "bare" -> <<d>>
    [] l = "fenced" -> <<Prose, Fence, d, Fence>>
    [] l = "in prose" -> <<Prose, d, Prose>>
    [] l = "braces after" -> <<Prose, d, Prose, Braces>>
    [] l = "object after" -> <<d, Prose, Decision(<<"fb", "2">>, Num(10))>>
    [] OTHER -> <<Braces, Prose, d>>

Layouts == {"bare", "fenced", "in prose", "braces after", "object after", "braces before"}

\* the confidences a decision object may report
ReportedConfidences ==
  {Num(-20), Num(0), Num(60), Num(100), Num(150), Absent, NotANumber}

\* response texts for the decision parser
ParserResponses ==
  { Layout(l, Decision(code, c)) :
      l \in Layouts, code \in {<<"fb", "1", "1">>, <<"fb", "1", "3", "1">>},
      c \in ReportedConfidences }
  \cup { Layout(l, DecisionCamel(<<"fb", "2">>, Num(90))) : l \in Layouts }
  \cup { <<>>, <<Prose>>, <<Braces>>, <<Prose, Open>>, <<Close, Prose, Open>>,
          <<Object(NoObj)>> }

InitParse ==
  /\ Idle
  /\ probe \in [pc : {"input"}, response : ParserResponses, result : {Null}]

\* parseClassificationResponse(response)
ApplyParseClassificationResponse ==
  /\ probe.pc = "input"
  /\ probe' = [probe EXCEPT !.pc = "output",
                            !.result = parseClassificationResponse(probe.response)]
  /\ UNCHANGED <<req, handler, calls>>

NextParse == ApplyParseClassificationResponse

SpecParse == InitParse /\ [][NextParse]_vars

\* products for the search text: descriptions with markup and blanks,
\* tags with marketing labels, more than five tags, every type label
SearchInputs ==
  [title : {<<"cola">>, <<"dark", "Chocolate", "bar">>},
   description : {<<>>, <<"<br>", WS>>,
                  <<"<p>", "crackers", WS, WS, "and", "honey", "</p>">>},
   productType : {<<>>, <<"Bakery">>, <<"Gift", "Box">>},
   tags : {<<>>,
           << <<"SALE">>, <<WS, "new", WS>> >>,
           << <<"Staff", "-", "pick">>, <<"cheese">>, <<"best", "seller">> >>,
           << <<"a">>, <<"b">>, <<"trending">>, <<"c">>, <<"d">>, <<"e">>, <<"f">> >>},
   variants : {<<>>}]

InitSearchText ==
  /\ Idle
  /\ probe \in [pc : {"input"}, input : SearchInputs,
                 otherProductType : {<<>>, <<"Bakery">>, <<"Gift", "Box">>},
                 result : {<<>>}, resultOther : {<<>>}]

\* getCandidatesFromEmbeddings builds the text it sends to the embedding
\* service, for the product and for the same product under another type
\* label
ApplyBuildSearchText ==
  /\ probe.pc = "input"
  /\ probe' = [probe EXCEPT
                 !.pc = "output",
                 !.result = buildSearchText(probe.input),
                 !.resultOther = buildSearchText(
                    [probe.input EXCEPT !.productType = probe.otherProductType])]
  /\ UNCHANGED <<req, handler, calls>>

NextSearchText == ApplyBuildSearchText

SpecSearchText == InitSearchText /\ [][NextSearchText]_vars

\* candidate lists the similarity search can return, those with a candidate
SelectionCandidates ==
  { l \in { matchTaxonomyCategories(e, EMBEDDING_MATCH_THRESHOLD, DEFAULT_MAX_CANDIDATES,
                                     NoLevel, FOOD_CATEGORY_PREFIX) : e \in Embeddings } :
      l # <<>> }

\* what classify left behind: where it ended, its confidence, flag and code
Outcome(c) ==
  [pc |-> c.pc, confidence |-> c.confidence, code |-> c.adjustedCode,
   needsReview |-> IF c.pc = "done" THEN c.output[1].needsReview ELSE TRUE]

InitSelection ==
  /\ Idle
  /\ probe \in [pc : {"input"}, candidates : SelectionCandidates,
                 bundleDetection : {NoBundle,
                                    [NoBundle EXCEPT !.isBundle = TRUE, !.confidence = D(40, 2),
                                                     !.recommendedMaxDepth = BUNDLE_MAX_DEPTH]},
                 llmConfidence : {Num(60), Num(100)},
                 confidenceThreshold : {50, DEFAULT_CONFIDENCE_THRESHOLD},
                 codeA : DecisionCodes, codeB : DecisionCodes,
                 resultA : {Outcome(FreshCall)}, resultB : {Outcome(FreshCall)}]

\* classify from the selection response on, once for each of two
\* responses that differ in the selected code only
ApplyAfterSelection ==
  /\ probe.pc = "input"
  /\ LET c == [FreshCall EXCEPT !.pc = "selecting", !.candidates = probe.candidates,
                                !.bundle = probe.bundleDetection, !.nEmbed = 1,
                                !.nSearch = 1, !.nSelect = 1]
         cfg == [DEFAULT_CONFIG EXCEPT !.confidenceThreshold = probe.confidenceThreshold,
                                       !.extractAttributes = FALSE]
         Answer(code) == <<Decision(code, probe.llmConfidence)>>
     IN  probe' = [probe EXCEPT
                     !.pc = "output",
                     !.resultA = Outcome(afterSelection(c, cfg, Answer(probe.codeA))),
                     !.resultB = Outcome(afterSelection(c, cfg, Answer(probe.codeB)))]
  /\ UNCHANGED <<req, handler, calls>>

NextSelection == ApplyAfterSelection

SpecSelection == InitSelection /\ [][NextSelection]_vars

(***************************************************************************)
(* Two requests in one process (worker.ts, supabase/client.ts)             *)
(* The module-level client and process.env are the process's; bindings,    *)
(* the key the embedding client was built with and the client the vector   *)
(* query went through are each request's.  A client records the request    *)
(* whose middleware created it.                                            *)
(***************************************************************************)
Requests == 1..2

\* the bindings a request is served with (c.env)
Bindings ==
  { [SUPABASE_URL |-> "https://a.supabase.co", OPENAI_API_KEY |-> "sk-a"],
    [SUPABASE_URL |-> "https://b.supabase.co", OPENAI_API_KEY |-> "sk-b"] }

\* let supabaseClient: SupabaseClient | null = null
NoClient == [owner |-> 0, url |-> ""]

\* initSupabase(config): supabaseClient = createClient(config.url, config.anonKey)
initSupabase(url, owner) == [owner |-> owner, url |-> url]

\* initSupabaseFromEnv(): the client after the call; unless process.env has
\* both SUPABASE_URL and SUPABASE_ANON_KEY it throws and the client stays
\* what it was
initSupabaseFromEnv(processEnv, client) ==
  IF processEnv.SUPABASE_URL = "" \/ processEnv.SUPABASE_ANON_KEY = "" THEN client
  ELSE initSupabase(processEnv.SUPABASE_URL, 0)

\* a request has products products and is at its round-th; openaiKey is the
\* key the embedding client of the current product was built with, queried
\* the client its last vector query went through
InitShared ==
  /\ Idle
  /\ probe \in [pc : {"serving"}, supabaseClient : {NoClient},
                 processEnv : [SUPABASE_URL : {"", "https://env.supabase.co"},
                               SUPABASE_ANON_KEY : {"", "anon-env"},
                               OPENAI_API_KEY : {""}],
                 r : [Requests -> [pc : {"arrived"}, env : Bindings,
                                   products : 1..MaxBatch, round : {0},
                                   openaiKey : {""}, queried : {NoClient}]]]

\* the init middleware of request i: initSupabase from c.env, then await
\* next(), where the route awaits the body
InitMiddleware(i) ==
  /\ probe.pc = "serving"
  /\ probe.r[i].pc = "arrived"
  /\ probe' = [probe EXCEPT
                 !.supabaseClient = initSupabase(probe.r[i].env.SUPABASE_URL, i),
                 !.r[i].pc = "body"]
  /\ UNCHANGED <<req, handler, calls>>

\* code of the process calls the exported initSupabaseFromEnv()
InitSupabaseFromEnv ==
  /\ probe.pc = "serving"
  /\ probe' = [probe EXCEPT
                 !.supabaseClient = initSupabaseFromEnv(probe.processEnv, @)]
  /\ UNCHANGED <<req, handler, calls>>

\* classify of the next product runs to generateEmbedding's `new OpenAI()`,
\* which reads process.env as it is then, and to its await
startProduct(r, processEnv) ==
  [r EXCEPT !.round = @ + 1, !.openaiKey = processEnv.OPENAI_API_KEY, !.pc = "embedding"]

\* classify of the current product has returned or thrown: the loop of
\* POST /classify/batch goes on to the next product, the last one is
\* followed by the response
productDone(r, processEnv) ==
  IF r.round < r.products THEN startProduct(r, processEnv)
  ELSE [r EXCEPT !.pc = "responded"]

\* the route of request i after its body is read: process.env keys set from
\* c.env, then classify of the first product
HandlerStart(i) ==
  /\ probe.pc = "serving"
  /\ probe.r[i].pc = "body"
  /\ LET env == [probe.processEnv EXCEPT
                   !.OPENAI_API_KEY = probe.r[i].env.OPENAI_API_KEY]
     IN  probe' = [probe EXCEPT !.processEnv = env,
                                !.r[i] = startProduct(probe.r[i], env)]
  /\ UNCHANGED <<req, handler, calls>>

\* the embedding of request i arrives: matchTaxonomyCategories takes
\* getSupabase() and awaits the query
EmbeddingAnswered(i) ==
  /\ probe.pc = "serving"
  /\ probe.r[i].pc = "embedding"
  /\ probe' = [probe EXCEPT !.r[i].queried = probe.supabaseClient,
                            !.r[i].pc = "searching"]
  /\ UNCHANGED <<req, handler, calls>>

\* the rows of request i arrive: classify awaits the selection response
SearchAnswered(i) ==
  /\ probe.pc = "serving"
  /\ probe.r[i].pc = "searching"
  /\ probe' = [probe EXCEPT !.r[i].pc = "selecting"]
  /\ UNCHANGED <<req, handler, calls>>

\* the selection response of request i arrives: classify awaits the
\* attribute response, or returns
SelectionAnswered(i) ==
  /\ probe.pc = "serving"
  /\ probe.r[i].pc = "selecting"
  /\ \E extract \in BOOLEAN :
       probe' = [probe EXCEPT
                   !.r[i] = IF extract THEN [@ EXCEPT !.pc = "extracting"]
                            ELSE productDone(@, probe.processEnv)]
  /\ UNCHANGED <<req, handler, calls>>

\* the attribute response of request i arrives and classify returns
AttributesAnswered(i) ==
  /\ probe.pc = "serving"
  /\ probe.r[i].pc = "extracting"
  /\ probe' = [probe EXCEPT !.r[i] = productDone(@, probe.processEnv)]
  /\ UNCHANGED <<req, handler, calls>>

\* an awaited step of request i fails and classify throws (a failed
\* embedding or query leaves no candidates)
ClassifyThrows(i) ==
  /\ probe.pc = "serving"
  /\ probe.r[i].pc \in {"embedding", "searching", "selecting", "extracting"}
  /\ probe' = [probe EXCEPT !.r[i] = productDone(@, probe.processEnv)]
  /\ UNCHANGED <<req, handler, calls>>

NextShared ==
  \/ \E i \in Requests : InitMiddleware(i)
  \/ InitSupabaseFromEnv
  \/ \E i \in Requests : HandlerStart(i)
  \/ \E i \in Requests : EmbeddingAnswered(i)
  \/ \E i \in Requests : SearchAnswered(i)
  \/ \E i \in Requests : SelectionAnswered(i)
  \/ \E i \in Requests : AttributesAnswered(i)
  \/ \E i \in Requests : ClassifyThrows(i)

SpecShared == InitShared /\ [][NextShared]_vars

(***************************************************************************)
(* One request to a classify route on its way through the app: the app     *)
(* registers cors and the init middleware for every path and mounts the    *)
(* classify routes behind them, and nothing else.                          *)
(***************************************************************************)
InitAccess ==
  /\ Idle
  /\ probe \in [pc : {"access"}, route : {"single", "batch"}, credentials : Credentials,
                 body : {"valid", "invalid", "notJson"}, at : {"arrived"},
                 classifyInvoked : {FALSE}, http : {0}]

\* app.use('*', ...): taxonomy and Supabase are initialised and next() is
\* awaited; no header of the request is read
RouteInitMiddleware ==
  /\ probe.pc = "access"
  /\ probe.at = "arrived"
  /\ probe' = [probe EXCEPT !.at = "route"]
  /\ UNCHANGED <<req, handler, calls>>

\* the route handler: a body that is not JSON makes c.req.json() throw inside
\* the try and is answered 500 by the catch, a body that fails the schema is
\* answered 400, both without a call of classify; otherwise the keys are set
\* and classify is awaited (for each product in turn)
RouteHandler ==
  /\ probe.pc = "access"
  /\ probe.at = "route"
  /\ probe' = CASE probe.body = "notJson" ->
                     [probe EXCEPT !.at = "responded", !.http = 500]
                 [] probe.body = "invalid" ->
                     [probe EXCEPT !.at = "responded", !.http = 400]
                 [] OTHER ->
                     [probe EXCEPT !.at = "classifying", !.classifyInvoked = TRUE]
  /\ UNCHANGED <<req, handler, calls>>

\* classify has returned or thrown: POST /classify answers 200 or 500,
\* POST /classify/batch records the failure in the entry and answers 200
RouteResponds ==
  /\ probe.pc = "access"
  /\ probe.at = "classifying"
  /\ \E thrown \in BOOLEAN :
       probe' = [probe EXCEPT !.at = "responded",
                              !.http = IF thrown /\ probe.route = "single" THEN 500 ELSE 200]
  /\ UNCHANGED <<req, handler, calls>>

NextAccess ==
  \/ RouteInitMiddleware
  \/ RouteHandler
  \/ RouteResponds

SpecAccess == InitAccess /\ [][NextAccess]_vars

(***************************************************************************)
(* Properties                                                              *)
(***************************************************************************)
Calls == 1..MaxBatch

\* the call has its candidate list (getCandidates has returned)
PastCandidates(c) == c.pc \in {"selecting", "extracting", "done", "failed"}

CodesOf(candidates) == {candidates[i].code : i \in 1..Len(candidates)}

\* C1: in classify, a parsed decision naming a code that no candidate has
\* is answered by taking the first, highest-scoring candidate's code, which
\* then goes through depth adjustment and the hierarchy lookup; the call
\* fails only if that lookup misses or the later attribute request fails.
C1_InvalidCodeFallsBackToTop ==
  \A k \in Calls :
    LET c == calls[k] IN
    (c.parsed # Null /\ c.parsed[1].selectedCode \notin CodesOf(c.candidates)) =>
      /\ c.finalCode = c.candidates[1].code
      /\ \A i \in 1..Len(c.candidates) : c.candidates[1].score >= c.candidates[i].score
      /\ c.adjustedCode = adjustCategoryForBundle(c.candidates[1].code, c.bundle)
      /\ (c.pc = "failed" =>
            \/ c.cause = "categoryNotFound" /\ getCategoryByCode(c.adjustedCode) = Null
            \/ c.cause = "service" /\ c.nAttr = 1)
      /\ (c.pc = "done" => c.output[1].category.code = c.adjustedCode)

\* a classify call that returned the adjusted top candidate after the
\* decision named a code outside a list of several candidates
C1_Witness ==
  \E k \in Calls :
    /\ calls[k].pc = "done"
    /\ calls[k].parsed # Null
    /\ calls[k].parsed[1].selectedCode = <<"fb", "99">>
    /\ Len(calls[k].candidates) >= 2
    /\ calls[k].output[1].category.code = calls[k].candidates[1].code

\* C2: when candidate generation yields an empty list the call fails with
\* the no-candidates error; no selection or attribute request has been
\* issued and there is no output.
C2_NoCandidatesFailsBeforeDecision ==
  \A k \in Calls :
    LET c == calls[k] IN
    (PastCandidates(c) /\ c.candidates = <<>>) =>
      /\ c.pc = "failed"
      /\ c.error = Some([type |-> "Error", message |-> NoCandidatesMessage])
      /\ c.nSelect = 0
      /\ c.nAttr = 0
      /\ c.response = Null
      /\ c.output = Null

\* a classify call that failed for want of candidates although the search
\* itself succeeded
C2_Witness ==
  \E k \in Calls :
    /\ req.fn = "classify"
    /\ calls[k].pc = "failed"
    /\ calls[k].candidates = <<>>
    /\ calls[k].nSearch = 1
    /\ ~calls[k].retrievalFailed

\* the response text holds a decodable JSON object
HoldsJsonObject(text) == \E i \in 1..Len(text) : text[i].kind = "object"

\* C3: when the selection response holds no decodable JSON object the
\* parser yields null and classify fails with the parse error: no code is
\* chosen, the request is not issued again, no attribute request is issued
\* and there is no output.
C3_UndecodableDecisionFails ==
  \A k \in Calls :
    LET c == calls[k] IN
    (c.response # Null /\ ~HoldsJsonObject(c.response[1])) =>
      /\ parseClassificationResponse(c.response[1]) = Null
      /\ c.parsed = Null
      /\ c.pc = "failed"
      /\ c.error = Some([type |-> "Error", message |-> ParseFailedMessage])
      /\ c.finalCode = <<>>
      /\ c.nSelect = 1
      /\ c.nAttr = 0
      /\ c.output = Null

\* a call failed on a response of prose and an unbalanced brace
C3_Witness ==
  \E k \in Calls :
    /\ calls[k].pc = "failed"
    /\ calls[k].response = Some(<<Prose, Open>>)
    /\ Len(calls[k].candidates) >= 1

\* the failures the caller sees: those just thrown and those it has caught
Failures ==
  {[cause |-> calls[k].cause, error |-> calls[k].error[1]] :
     k \in {j \in Calls : calls[j].pc = "failed"}}
  \cup {[cause |-> handler.results[i].cause, error |-> handler.results[i].caught[1]] :
          i \in {j \in 1..Len(handler.results) : handler.results[j].caught # Null}}

\* the fatal conditions of classify and classifyOffline
FatalCauses == {"noCandidates", "decisionParse", "categoryNotFound", "retrievalFailed"}

\* C4: every fatal condition of classify/classifyOffline (no candidates,
\* unparsable decision, resolved code missing from the hierarchy, retrieval
\* failed) reaches the caller as a failure of its own type, so that two
\* failures raised by different conditions have different types, and none
\* is turned into a returned output.
C4_DistinctTypedFailures ==
  /\ \A f, g \in Failures :
        (f.cause \in FatalCauses /\ g.cause \in FatalCauses /\ f.cause # g.cause) =>
          f.error.type # g.error.type
  /\ \A k \in Calls :
        LET c == calls[k] IN
        /\ (c.pc = "failed" => c.output = Null)
        /\ (PastCandidates(c) /\ c.candidates = <<>> =>
              c.pc = "failed" /\ c.cause \in {"noCandidates", "retrievalFailed"})
        /\ (c.response # Null /\ parseClassificationResponse(c.response[1]) = Null =>
              c.pc = "failed" /\ c.cause = "decisionParse")
        /\ (c.adjustedCode # <<>> /\ getCategoryByCode(c.adjustedCode) = Null =>
              c.pc = "failed" /\ c.cause = "categoryNotFound")

\* C5: classifyOffline never issues a selection or attribute request to the
\* decision service, and every result it returns has needsReview = true,
\* whatever its confidence and the configured threshold.
C5_OfflineAlwaysNeedsReview ==
  req.fn = "classifyOffline" =>
    \A k \in Calls :
      /\ calls[k].nSelect = 0
      /\ calls[k].nAttr = 0
      /\ calls[k].pc \notin {"selecting", "extracting"}
      /\ calls[k].response = Null
      /\ (calls[k].pc = "done" => calls[k].output[1].needsReview = TRUE)

\* an offline result whose confidence is not below the threshold and which
\* is flagged all the same
C5_Witness ==
  \E k \in Calls :
    /\ req.fn = "classifyOffline"
    /\ calls[k].pc = "done"
    /\ DLeq(D(req.config.confidenceThreshold, 2), calls[k].output[1].category.confidence)
    /\ calls[k].output[1].needsReview

\* the requests a call has issued, per external step
Attempts(c) == <<c.nEmbed, c.nSearch, c.nSelect, c.nAttr>>

\* C6: within one call each external step is issued at most once, a
\* failed call issues nothing more until it has left, and a call whose
\* similarity search failed issues no further embedding request or query.
C6_SinglePassNoRetries ==
  [][\A k \in Calls :
       /\ calls'[k].nEmbed <= 1 /\ calls'[k].nSearch <= 1
       /\ calls'[k].nSelect <= 1 /\ calls'[k].nAttr <= 1
       /\ (calls[k].pc = "failed" =>
             \/ calls'[k].pc = "returned"
             \/ calls'[k] = calls[k])
       /\ (calls[k].retrievalFailed /\ calls'[k].pc # "returned" =>
             /\ calls'[k].nEmbed = calls[k].nEmbed
             /\ calls'[k].nSearch = calls[k].nSearch)]_vars

\* a call that went through all four steps once and failed at the last
C6_Witness ==
  \E k \in Calls :
    /\ calls[k].pc = "failed"
    /\ calls[k].cause = "service"
    /\ Attempts(calls[k]) = <<1, 1, 1, 1>>

\* the call has been started and has not yet returned or thrown
InFlight(c) == c.pc \in {"embedding", "searching", "selecting", "extracting"}

\* C7: in a batch the call for a product starts only after the calls for
\* all earlier products have returned or failed into the handler, so at
\* most one call is in flight, and the results are collected in input order.
C7_BatchStrictlySequential ==
  req.kind = "batch" =>
    /\ Cardinality({k \in Calls : InFlight(calls[k])}) <= 1
    /\ \A k \in Calls :
          calls[k].pc # "init" => \A j \in 1..(k - 1) : calls[j].pc = "returned"
    /\ \A k \in Calls : k > Len(req.products) => calls[k].pc = "init"
    /\ \A i \in 1..Len(handler.results) : handler.results[i].index = i

\* a batch of several products whose second call is in flight after the
\* first has come back
C7_Witness ==
  /\ req.kind = "batch"
  /\ Len(req.products) >= 2
  /\ calls[1].pc = "returned"
  /\ calls[2].pc = "selecting"
  /\ Len(handler.results) = 1

\* C8: when the embedding request or the vector query fails, the call's
\* candidate list is built from the type anchor alone, with no similarity
\* candidate in it; an empty list makes the call fail with the
\* no-candidates error, and a non-empty one lets it go on.
C8_SearchFailureYieldsNoCandidates ==
  \A k \in Calls :
    LET c == calls[k] IN
    c.retrievalFailed =>
      /\ PastCandidates(c)
      /\ \A i \in 1..Len(c.candidates) : c.candidates[i].source # "embedding"
      /\ c.candidates = Slice0(c.typeCandidates, req.config.maxCandidates)
      /\ (c.candidates = <<>> =>
            /\ c.pc = "failed"
            /\ c.error = Some([type |-> "Error", message |-> NoCandidatesMessage])
            /\ c.nSelect = 0)
      /\ (c.candidates # <<>> => c.cause # "retrievalFailed")

\* a call that failed for want of candidates after its vector query failed
C8_Witness ==
  \E k \in Calls :
    /\ calls[k].retrievalFailed
    /\ calls[k].nSearch = 1
    /\ calls[k].pc = "failed"
    /\ calls[k].error = Some([type |-> "Error", message |-> NoCandidatesMessage])

\* the candidates the two sources offered to call c
Offered(c) ==
  c.typeCandidates \o
    (IF c.retrievalFailed THEN <<>>
     ELSE matchTaxonomyCategories(c.embedding, EMBEDDING_MATCH_THRESHOLD,
                                  req.config.maxCandidates, maxDepthOf(c.bundle),
                                  FOOD_CATEGORY_PREFIX))

\* the highest score in a non-empty set of scores
MaxOf(S) == CHOOSE x \in S : \A y \in S : y <= x

\* C9: the list getCandidates returns holds each offered code at most once,
\* with the highest score either source offered for it, in non-increasing
\* score order, and has min(maxCandidates, number of offered codes)
\* elements, none scoring below an offered code left out.
C9_CandidatesMergedDedupedSorted ==
  \A k \in Calls :
    LET c == calls[k]
        l == c.candidates
        o == Offered(c)
        ScoresFor(code) == {o[i].score : i \in {j \in 1..Len(o) : o[j].code = code}}
    IN  PastCandidates(c) =>
          /\ \A i, j \in 1..Len(l) : i # j => l[i].code # l[j].code
          /\ \A i \in 1..Len(l) :
                /\ l[i].code \in CodesOf(o)
                /\ l[i].score = MaxOf(ScoresFor(l[i].code))
          /\ \A i \in 1..(Len(l) - 1) : l[i].score >= l[i + 1].score
          /\ Len(l) <= req.config.maxCandidates
          /\ Len(l) = Min(req.config.maxCandidates, Cardinality(CodesOf(o)))
          /\ \A code \in CodesOf(o) \ CodesOf(l) :
                MaxOf(ScoresFor(code)) <= l[Len(l)].score

\* a list in which the code of the type anchor carries the higher score
\* the similarity search gave it, next to other candidates
C9_Witness ==
  \E k \in Calls :
    /\ PastCandidates(calls[k])
    /\ Len(calls[k].candidates) >= 2
    /\ \E i \in 1..Len(calls[k].typeCandidates), j \in 1..Len(calls[k].candidates) :
         /\ calls[k].candidates[j].code = calls[k].typeCandidates[i].code
         /\ calls[k].candidates[j].score > calls[k].typeCandidates[i].score

\* C10: classify's output is flagged for review exactly when its
\* confidence is strictly below the configured threshold; a confidence
\* equal to the threshold is not flagged.
C10_ReviewIffBelowThreshold ==
  \A k \in Calls :
    (req.fn = "classify" /\ calls[k].pc = "done") =>
      (calls[k].output[1].needsReview <=>
         DLess(calls[k].output[1].category.confidence,
               D(req.config.confidenceThreshold, 2)))

\* a classify result whose confidence equals the default threshold and
\* which is not flagged
C10_Witness ==
  \E k \in Calls :
    /\ req.fn = "classify"
    /\ calls[k].pc = "done"
    /\ req.config.confidenceThreshold = DEFAULT_CONFIDENCE_THRESHOLD
    /\ calls[k].output[1].category.confidence = D(DEFAULT_CONFIDENCE_THRESHOLD, 2)
    /\ ~calls[k].output[1].needsReview

\* the arguments of a call are all finite numbers
FiniteArguments(p) ==
  /\ IsFinite(p.llmConfidence)
  /\ (p.embeddingScore # Null => IsFinite(p.embeddingScore[1]))
  /\ (p.bundleDetection.isBundle => IsFinite(p.bundleDetection.confidence))

\* the weighted sum of finite arguments as an exact number of ten-thousandths
ExactSum(p) ==
  85 * Decimal(p.llmConfidence, 2)
  + (IF p.embeddingScore = Null THEN 0 ELSE 10 * Decimal(p.embeddingScore[1], 2))
  - (IF p.bundleDetection.isBundle
       THEN 5 * (100 - Decimal(p.bundleDetection.confidence, 2)) ELSE 0)

\* C11: for all inputs calculateConfidence returns a value within [0,1]:
\* for every decision confidence and similarity, also outside [0,1], and
\* for any bundle detection.
C11_ConfidenceWithinUnitInterval ==
  probe.pc = "output" => (DLeq(DZero, probe.result) /\ DLeq(probe.result, DOne))

\* C12: calculateConfidence returns 0.85 x decision confidence + 0.10 x
\* similarity (left out when none is supplied) - 0.05 x (1 - bundle
\* confidence) (only when isBundle), clamped to [0,1]; a decision
\* confidence of 1.0 with no similarity and no bundle gives 0.85.  The
\* expression is taken in the program's arithmetic, and for finite
\* arguments the result is, to four decimals, its exact value.
C12_ConfidenceIsWeightedSum ==
  probe.pc = "output" =>
    LET b == probe.bundleDetection
        decision == DMul(D(85, 2), probe.llmConfidence)
        similarity == IF probe.embeddingScore = Null THEN DZero
                      ELSE DMul(D(10, 2), probe.embeddingScore[1])
        p == IF b.isBundle THEN DMul(D(5, 2), DSub(DOne, b.confidence)) ELSE DZero
    IN  /\ probe.result = DMax(DZero, DMin(DOne, DSub(DAdd(decision, similarity), p)))
        /\ (FiniteArguments(probe) =>
              Decimal(probe.result, 4) = Max(0, Min(10000, ExactSum(probe))))
        /\ (probe.llmConfidence = DOne /\ probe.embeddingScore = Null /\ ~b.isBundle
              => probe.result = D(85, 2))

\* a bundle's result with all three terms in it, strictly inside (0,1)
C12_Witness ==
  /\ probe.pc = "output"
  /\ probe.llmConfidence = D(90, 2)
  /\ probe.embeddingScore = Some(D(85, 2))
  /\ probe.bundleDetection.isBundle
  /\ probe.bundleDetection.confidence = D(40, 2)
  /\ probe.result = D(82, 2)

\* C13: detectBundle's result has a confidence within [0,1], isBundle true
\* exactly when the confidence is at least 0.4, and a recommended depth of
\* 3 for a bundle and 7 otherwise.
C13_BundleResultInvariants ==
  probe.pc = "output" =>
    /\ DLeq(DZero, probe.result.confidence) /\ DLeq(probe.result.confidence, DOne)
    /\ (probe.result.isBundle <=> DLeq(D(40, 2), probe.result.confidence))
    /\ probe.result.recommendedMaxDepth = (IF probe.result.isBundle THEN 3 ELSE 7)

\* a bundle at exactly the threshold (description and variants, 0.2 + 0.2)
C13_Witness ==
  /\ probe.pc = "output"
  /\ probe.result.confidence = D(40, 2)
  /\ probe.result.isBundle
  /\ probe.result.signals = <<"description", "variants">>
  /\ probe.result.recommendedMaxDepth = 3

\* some phrase of the list occurs in the lowercased text
Matches(list, text) ==
  \E i \in 1..Len(list) : Includes(ToLowerCase(text), list[i])

\* the number of phrases of the list that occur in the lowercased text
MatchCount(list, text) ==
  Cardinality({i \in 1..Len(list) : Includes(ToLowerCase(text), list[i])})

\* the distinct variant titles that are neither size-only nor pack-count-only
MeaningfulTitles(variants) ==
  {t \in {Trim(ToLowerCase(variants[i].title)) : i \in 1..Len(variants)} :
     t # <<>> /\ ~packSizeOnlyPattern(t) /\ ~sizeOnlyPattern(t)}

\* the confidence the four text fields of a product add up to
FieldEvidence(input) ==
  (IF Matches(BUNDLE_KEYWORDS, input.title) THEN 40 ELSE 0)
  + (IF Matches(BUNDLE_KEYWORDS, input.description) THEN 20 ELSE 0)
  + (IF Matches(BUNDLE_PRODUCT_TYPES, input.productType) THEN 50 ELSE 0)
  + (IF \E j \in 1..Len(input.tags) : Matches(BUNDLE_TAGS, input.tags[j]) THEN 40 ELSE 0)

\* 1 for a condition that holds, 0 for one that does not
Indicator(b) == IF b THEN DOne ELSE DZero

\* 0.4 x [title] + 0.2 x [description] + 0.5 x [type label] + 0.4 x [tag],
\* in the program's arithmetic
FieldSum(input) ==
  DAdd(DAdd(DAdd(DMul(D(40, 2), Indicator(Matches(BUNDLE_KEYWORDS, input.title))),
                 DMul(D(20, 2), Indicator(Matches(BUNDLE_KEYWORDS, input.description)))),
            DMul(D(50, 2), Indicator(Matches(BUNDLE_PRODUCT_TYPES, input.productType)))),
       DMul(D(40, 2), Indicator(\E j \in 1..Len(input.tags) :
                                   Matches(BUNDLE_TAGS, input.tags[j]))))

\* C14: detectBundle's confidence is min(1, 0.4 [title] + 0.2 [description]
\* + 0.5 [type label] + 0.4 [some tag] + 0.2 [variant signal]): each field
\* counts once however many phrases, tags or variants match.  The sum is
\* taken in the program's arithmetic, and to two decimals the confidence
\* is its exact value.
C14_BundleConfidenceIsWeightSum ==
  probe.pc = "output" =>
    LET variantSignal == Cardinality(MeaningfulTitles(probe.input.variants)) >= 3
        sum == DAdd(FieldSum(probe.input), DMul(D(20, 2), Indicator(variantSignal)))
        exact == FieldEvidence(probe.input) + (IF variantSignal THEN 20 ELSE 0)
    IN  /\ probe.result.confidence = DMin(DOne, sum)
        /\ Decimal(probe.result.confidence, 2) = Min(100, exact)

\* a title holding two bundle phrases and two bundle tags, counted once each
C14_Witness ==
  /\ probe.pc = "output"
  /\ MatchCount(BUNDLE_KEYWORDS, probe.input.title) >= 2
  /\ Cardinality({j \in 1..Len(probe.input.tags) :
                    Matches(BUNDLE_TAGS, probe.input.tags[j])}) >= 2
  /\ probe.input.description = <<>>
  /\ probe.input.productType = <<>>
  /\ probe.input.variants = <<>>
  /\ probe.result.confidence = D(80, 2)

\* titles that are a pack count and nothing else
PackCountTitles ==
  { <<"2", "-", "pack">>, <<"6", "-", "pack">>, <<"12", "-", "pack">>,
    <<"24", "-", "pack">> }

\* C15: variants whose titles are all pack counts add no signal and no
\* confidence: the result is that of the product without variants, and
\* with no other evidence it is not a bundle and has no signal.
C15_PackCountVariantsAddNothing ==
  (probe.pc = "output" /\ probe.input.variants # <<>>
     /\ \A i \in 1..Len(probe.input.variants) :
          probe.input.variants[i].title \in PackCountTitles) =>
    /\ \A i \in 1..Len(probe.result.signals) : probe.result.signals[i] # "variants"
    /\ probe.result.confidence = DMin(DOne, FieldSum(probe.input))
    /\ Decimal(probe.result.confidence, 2) = Min(100, FieldEvidence(probe.input))
    /\ (FieldEvidence(probe.input) = 0 =>
          ~probe.result.isBundle /\ probe.result.signals = <<>>)

\* four distinct pack counts on a product with no other evidence
C15_Witness ==
  /\ probe.pc = "output"
  /\ Len(probe.input.variants) = 4
  /\ \A i \in 1..4 : probe.input.variants[i].title \in PackCountTitles
  /\ FieldEvidence(probe.input) = 0
  /\ ~probe.result.isBundle
  /\ probe.result.signals = <<>>
  /\ probe.result.confidence = DZero

\* C16 as stated: at least 3 distinct variant titles that are neither
\* size-only nor pack-count-only make the product a bundle.
C16_ThreeVariantsMakeBundle ==
  (probe.pc = "output" /\ Cardinality(MeaningfulTitles(probe.input.variants)) >= 3) =>
    probe.result.isBundle

\* C16 (amended): at least 3 such titles add exactly one variant signal
\* and 0.2 to the confidence; the product is a bundle only when the other
\* fields bring the confidence to 0.4, so with no other evidence the
\* confidence is 0.2 and isBundle is false.
C16_ThreeVariantsAddOneSignal ==
  (probe.pc = "output" /\ Cardinality(MeaningfulTitles(probe.input.variants)) >= 3) =>
    /\ Cardinality({i \in 1..Len(probe.result.signals) :
                      probe.result.signals[i] = "variants"}) = 1
    /\ probe.result.confidence = DMin(DOne, DAdd(FieldSum(probe.input), D(20, 2)))
    /\ Decimal(probe.result.confidence, 2) = Min(100, FieldEvidence(probe.input) + 20)
    /\ (probe.result.isBundle <=> FieldEvidence(probe.input) >= 20)
    /\ (FieldEvidence(probe.input) = 0 => ~probe.result.isBundle)

\* three flavours on a product with no other evidence: one signal, 0.2,
\* not a bundle
C16_Witness ==
  /\ probe.pc = "output"
  /\ Cardinality(MeaningfulTitles(probe.input.variants)) = 3
  /\ FieldEvidence(probe.input) = 0
  /\ probe.result.signals = <<"variants">>
  /\ probe.result.confidence = D(20, 2)
  /\ ~probe.result.isBundle

\* C17: adjustCategoryForBundle applied to its own result, with the same
\* bundle detection, returns that result unchanged.
C17_AdjustIsIdempotent ==
  probe.pc = "output" => probe.again = probe.result

\* a code of 9 segments cut to 4 for a bundle, and left at 4 when adjusted
\* again
C17_Witness ==
  /\ probe.pc = "output"
  /\ probe.bundleDetection.isBundle
  /\ probe.bundleDetection.recommendedMaxDepth = 3
  /\ Len(probe.selectedCode) = 9
  /\ Len(probe.result) = 4
  /\ probe.again = probe.result

\* C18: for a bundle adjustCategoryForBundle returns the first
\* recommendedMaxDepth + 1 segments of a code that has more, and the code
\* itself otherwise; for a non-bundle it returns the code itself; with
\* recommended depth 3 a bundle's result has at most 4 segments.
C18_AdjustTruncatesToDepthPlusOne ==
  probe.pc = "output" =>
    LET code == probe.selectedCode
        b == probe.bundleDetection
        n == b.recommendedMaxDepth + 1
    IN  /\ (b.isBundle /\ Len(code) > n =>
              /\ Len(probe.result) = n
              /\ \A i \in 1..n : probe.result[i] = code[i])
        /\ (b.isBundle /\ Len(code) <= n => probe.result = code)
        /\ (~b.isBundle => probe.result = code)
        /\ (b.isBundle /\ b.recommendedMaxDepth = 3 => Len(probe.result) <= 4)

\* a bundle's code of 5 segments cut to its first 4
C18_Witness ==
  /\ probe.pc = "output"
  /\ probe.bundleDetection.isBundle
  /\ probe.bundleDetection.recommendedMaxDepth = 3
  /\ probe.selectedCode = <<"fb", "1", "2", "3", "4">>
  /\ probe.result = <<"fb", "1", "2", "3">>

\* the first brace-delimited block of a response, 0 when it has none
FirstBlock(response) ==
  LET IsBlock(i) == response[i].kind \in {"object", "braces"}
  IN  FirstIndex(Len(response), IsBlock)

\* C19: every decision the parser returns has a confidence within [0,1]; a
\* reported confidence above 1 becomes exactly 1 and one below 0 becomes 0.
C19_ParsedConfidenceClamped ==
  (probe.pc = "output" /\ probe.result # Null) =>
    LET reported == probe.response[FirstBlock(probe.response)].obj.confidence
    IN  /\ 0 <= probe.result[1].confidence
        /\ probe.result[1].confidence <= 100
        /\ (reported.t = "number" /\ reported.n > 100 => probe.result[1].confidence = 100)
        /\ (reported.t = "number" /\ reported.n < 0 => probe.result[1].confidence = 0)
        /\ (reported.t = "number" /\ reported.n \in 0..100 =>
              probe.result[1].confidence = reported.n)

\* a decision reporting 1.5 parsed with confidence 1.0
C19_Witness ==
  /\ probe.pc = "output"
  /\ probe.response = <<Decision(<<"fb", "1", "3", "1">>, Num(150))>>
  /\ probe.result # Null
  /\ probe.result[1].confidence = 100

\* C20 as stated: when the first balanced brace-delimited block of the
\* response is a well-formed decision object, the parser returns the
\* decision held in that block, whatever text follows it.
C20_FirstBalancedBlockDecoded ==
  (probe.pc = "output" /\ FirstBlock(probe.response) # 0
     /\ probe.response[FirstBlock(probe.response)].kind = "object"
     /\ \A i \in 1..(FirstBlock(probe.response) - 1) :
          probe.response[i].kind \in {"prose", "fence"}) =>
    LET o == probe.response[FirstBlock(probe.response)].obj
    IN  /\ probe.result # Null
        /\ probe.result[1].selectedCode = OrElse(o.selected_code, o.selectedCode)
        /\ probe.result[1].reasoning = o.reasoning

\* the attribute responses that hold no decodable attribute list: no JSON
\* object at all, or an object whose "attributes" is not a list
MalformedAttributeResponses ==
  { <<Prose>>, <<Object([NoObj EXCEPT !.attributesOk = FALSE])>> }

\* C21: a malformed or undecodable attribute-extraction response yields an
\* empty attribute list: classify still returns its category result, with
\* no attributes, and never fails because of it
C21_MalformedAttributesYieldEmptyList ==
  \A k \in Calls :
    (calls[k].attrResponse # Null
       /\ calls[k].attrResponse[1] \in MalformedAttributeResponses)
      => /\ calls[k].pc = "done"
         /\ calls[k].error = Null
         /\ calls[k].output # Null
         /\ calls[k].output[1].attributes = <<>>
         /\ calls[k].output[1].category.code = calls[k].adjustedCode
         /\ calls[k].output[1].category.confidence = calls[k].confidence

C21_Witness ==
  \E k \in Calls :
    /\ calls[k].attrResponse = Some(<<Object([NoObj EXCEPT !.attributesOk = FALSE])>>)
    /\ calls[k].pc = "done"
    /\ calls[k].output[1].attributes = <<>>
    /\ calls[k].output[1].category.code = <<"fb", "1", "1">>
\* C22: the search string sent to the embedding service does not depend on
\* productType: two products that differ only in productType give the
\* same search string
C22_SearchTextIgnoresProductType ==
  probe.pc = "output" => probe.result = probe.resultOther

C22_Witness ==
  /\ probe.pc = "output"
  /\ probe.input.productType = <<"Bakery">>
  /\ probe.otherProductType = <<"Gift", "Box">>
  /\ probe.result = <<"cola", SEP, "crackers", WS, "and", "honey", SEP, "cheese">>
\* C23: a batch of N valid products is answered with HTTP 200 and exactly
\* N entries, entry i describing product i; a product whose classification
\* throws gives {success: false, error} at its position and the later
\* products are still classified; meta.count = N = succeeded + failed
C23_BatchAnswersEveryProduct ==
  (req.kind = "batch" /\ handler.status = "responded")
    => /\ handler.http = 200
       /\ Len(handler.results) = Len(req.products)
       /\ \A i \in 1..Len(req.products) :
            /\ handler.results[i].product = req.products[i]
            /\ handler.results[i].success <=> handler.results[i].caught = Null
            /\ handler.results[i].success <=> handler.results[i].code # <<>>
       /\ handler.meta.count = Len(req.products)
       /\ handler.meta.succeeded + handler.meta.failed = handler.meta.count
       /\ handler.meta.succeeded =
            Cardinality({i \in 1..Len(handler.results) : handler.results[i].success})

C23_Witness ==
  /\ req.kind = "batch"
  /\ handler.status = "responded"
  /\ handler.http = 200
  /\ req.products = <<ChocolateBar, CheesePantry>>
  /\ ~handler.results[1].success
  /\ handler.results[1].caught[1].message = ServiceFailedMessage
  /\ handler.results[2].success
  /\ handler.meta = [count |-> 2, succeeded |-> 1, failed |-> 1]
\* C24: a caller whose role is basic is never served by POST /classify or
\* POST /classify/batch: the classifier is not invoked and the response is
\* 403; only the privileged role reaches the handlers
C24_BasicRoleNeverServed ==
  probe.pc = "access" =>
    /\ resolvedRole(probe.credentials) = "basic"
         => /\ ~probe.classifyInvoked
            /\ probe.at = "responded" => probe.http = 403
    /\ (probe.classifyInvoked \/ probe.http = 200)
         => resolvedRole(probe.credentials) = "privileged"

\* C25: the attribute-extraction request is made only if extraction is
\* enabled and the resolved category defines at least one attribute, and
\* only after the category was selected, truncated and resolved; with
\* extraction disabled the decision service is never called a second time
C25_AttributeCallOnlyWhenEnabledAndResolved ==
  \A k \in Calls :
    /\ calls[k].nAttr >= 1
         => /\ req.config.extractAttributes
            /\ calls[k].nAttr = 1
            /\ calls[k].nSelect = 1
            /\ calls[k].parsed # Null
            /\ calls[k].finalCode \in CodesOf(calls[k].candidates)
            /\ calls[k].adjustedCode =
                 adjustCategoryForBundle(calls[k].finalCode, calls[k].bundle)
            /\ getCategoryByCode(calls[k].adjustedCode) # Null
            /\ getCategoryByCode(calls[k].adjustedCode)[1].attributes # {}
    /\ ~req.config.extractAttributes
         => calls[k].nAttr = 0 /\ calls[k].nSelect + calls[k].nAttr <= 1

C25_Witness ==
  \E k \in Calls :
    /\ calls[k].pc = "extracting"
    /\ calls[k].nAttr = 1
    /\ calls[k].bundle.isBundle
    /\ calls[k].finalCode # calls[k].adjustedCode
\* C26: classification requests share no mutable state: under any
\* interleaving of two concurrent requests each request reads only the
\* credentials and clients of its own request, and so gets the result it
\* would get alone (its vector query goes to its own store)
C26_RequestsShareNoMutableState ==
  probe.pc = "serving" =>
    \A i \in Requests :
      /\ probe.r[i].round > 0 => probe.r[i].openaiKey = probe.r[i].env.OPENAI_API_KEY
      /\ probe.r[i].queried # NoClient =>
           /\ probe.r[i].queried.owner = i
           /\ probe.r[i].queried.url = probe.r[i].env.SUPABASE_URL

\* the food rows of depth at most d that reach the threshold for a query,
\* best first, cut to count
MatchesWithinDepth(queryEmbedding, d, count) ==
  LET n == Len(EmbeddingRows)
      keep == [i \in 1..n |->
                 /\ EmbeddingRows[i].level <= d
                 /\ EmbeddingRows[i].category_code[1] = FOOD_CATEGORY_PREFIX
                 /\ queryEmbedding[i] >= EMBEDDING_MATCH_THRESHOLD]
      all == [i \in 1..n |->
                [code |-> EmbeddingRows[i].category_code, score |-> queryEmbedding[i]]]
  IN  Slice0(SortByScoreDesc(SelectSeqRec(all, keep)), count)

\* C27: when a maximum depth d is passed to candidate generation, the
\* similarity search draws its results from all categories of depth at
\* most d (shallower categories remain eligible) and never returns a
\* category deeper than d
C27_SearchDrawsFromDepthAtMost ==
  \A k \in Calls :
    (/\ calls[k].pc \in {"selecting", "extracting", "done", "failed"}
     /\ calls[k].nSearch = 1
     /\ ~calls[k].retrievalFailed
     /\ ~req.withMappings
     /\ calls[k].bundle.isBundle)
      => /\ \A i \in 1..Len(calls[k].candidates) :
              calls[k].candidates[i].level <= calls[k].bundle.recommendedMaxDepth
         /\ CodesOf(calls[k].candidates) =
              CodesOf(MatchesWithinDepth(calls[k].embedding,
                                         calls[k].bundle.recommendedMaxDepth,
                                         req.config.maxCandidates))
\* C28: the top-match path and score in the signals of every
\* ClassificationOutput are those of the highest-scoring similarity-search
\* candidate, not of a type-anchor candidate
C28_SignalsNameTopSimilarityMatch ==
  \A k \in Calls :
    (calls[k].pc = "done" /\ calls[k].output # Null)
      => \E i \in 1..Len(calls[k].candidates) :
           /\ calls[k].candidates[i].source = "embedding"
           /\ \A j \in 1..Len(calls[k].candidates) :
                calls[k].candidates[j].source = "embedding"
                  => calls[k].candidates[j].score <= calls[k].candidates[i].score
           /\ calls[k].output[1].signals.embeddingTopMatch = calls[k].candidates[i].path
           /\ calls[k].output[1].signals.embeddingScore = calls[k].candidates[i].score
\* C29: the category code of every output of classify or classifyOffline is
\* the code of one of the request's candidates or, for a bundle, such a
\* code's first recommendedMaxDepth + 1 segments; a code the decision
\* service proposed that is not a candidate code never appears
C29_OutputCodeComesFromCandidates ==
  \A k \in Calls :
    (calls[k].pc = "done" /\ calls[k].output # Null)
      => LET code == calls[k].output[1].category.code
             maxParts == calls[k].bundle.recommendedMaxDepth + 1
             cands == CodesOf(calls[k].candidates)
             prefixes == {SubSeq(cc, 1, maxParts) : cc \in {x \in cands : Len(x) > maxParts}}
         IN  /\ code \in cands \/ (calls[k].bundle.isBundle /\ code \in prefixes)
             /\ (calls[k].parsed # Null
                   /\ calls[k].parsed[1].selectedCode \notin cands \cup prefixes)
                  => code # calls[k].parsed[1].selectedCode

C29_Witness ==
  \E k \in Calls :
    /\ calls[k].pc = "done"
    /\ calls[k].parsed # Null
    /\ calls[k].parsed[1].selectedCode = <<"fb", "2">>
    /\ <<"fb", "2">> \notin CodesOf(calls[k].candidates)
    /\ calls[k].output[1].category.code \in CodesOf(calls[k].candidates)
\* C30: for a fixed candidate list, bundle detection and decision-service
\* confidence, the confidence and review flag of classify's output do not
\* depend on the code the decision service selected, a code outside the
\* candidate set included: the fallback to the top candidate neither
\* lowers the confidence nor forces needsReview = true
C30_ConfidenceIgnoresSelectedCode ==
  (probe.pc = "output" /\ probe.resultA.pc = "done" /\ probe.resultB.pc = "done")
    => /\ probe.resultA.confidence = probe.resultB.confidence
       /\ probe.resultA.needsReview = probe.resultB.needsReview

C30_Witness ==
  /\ probe.pc = "output"
  /\ Len(probe.candidates) >= 2
  /\ probe.codeA = probe.candidates[2].code
  /\ probe.codeB = <<"fb", "99">>
  /\ probe.resultA.pc = "done"
  /\ probe.resultB.pc = "done"
  /\ probe.resultA.code # probe.resultB.code
  /\ ~probe.resultB.needsReview
  /\ DLess(DZero, probe.resultB.confidence)
=============================================================================
